---- MODULE Spec2Model ----
(***************************************************************************)
(* Tool-call mini-language of enhanced_code_agent.py: the Call Locator     *)
(* (_extract_tool_calls) and the Argument Splitter (_parse_args).          *)
(* Strings are sequences of one-character strings; all indices keep the    *)
(* 0-based values of the Python source, and At(s, k) reads s[k].           *)
(***************************************************************************)
EXTENDS Integers, Sequences, FiniteSets, TLC

\* ------------------------------------------------------------------ bounds
MaxFrags == 4
MaxLen == 4
MaxTokens == 2
MaxUnits == 3
MaxChunks == 3

\* -------------------------------------------------------------- characters
DQ == "\""
SQ == "'"
BS == "\\"
None == "None"

\* s[k] of Python for 0 <= k < len(s)
At(s, k) == s[k + 1]

\* s[a:b] of Python for 0 <= a, b <= len(s)
Slice(s, a, b) == IF b > a THEN SubSeq(s, a + 1, b) ELSE <<>>

\* the characters str.strip() removes
IsSpace(c) == c \in {" ", "\n", "\t", "\r"}

RECURSIVE LStrip(_)
LStrip(s) == IF s # <<>> /\ IsSpace(Head(s)) THEN LStrip(Tail(s)) ELSE s

RECURSIVE RStrip(_)
RStrip(s) ==
    IF s # <<>> /\ IsSpace(s[Len(s)]) THEN RStrip(SubSeq(s, 1, Len(s) - 1)) ELSE s

\* str.strip()
Strip(s) == RStrip(LStrip(s))

\* the class \w of the pattern: letters, digits and the underscore
WordChars ==
    {"a", "b", "c", "d", "e", "f", "g", "h", "i", "j", "k", "l", "m", "n",
     "o", "p", "q", "r", "s", "t", "u", "v", "w", "x", "y", "z",
     "A", "B", "C", "D", "E", "F", "G", "H", "I", "J", "K", "L", "M", "N",
     "O", "P", "Q", "R", "S", "T", "U", "V", "W", "X", "Y", "Z",
     "0", "1", "2", "3", "4", "5", "6", "7", "8", "9", "_"}

IsWord(c) == c \in WordChars

\* ------------------------------------------------- pattern TOOL\[(\w+)\]
Prefix == <<"T", "O", "O", "L", "[">>

\* number of consecutive word characters of text from offset k on
RECURSIVE WordRun(_, _)
WordRun(text, k) ==
    IF k < Len(text) /\ IsWord(At(text, k)) THEN 1 + WordRun(text, k + 1) ELSE 0

\* the pattern matches at offset k: TOOL[ , one or more word characters, ]
MatchesAt(text, k) ==
    /\ k + 5 <= Len(text)
    /\ Slice(text, k, k + 5) = Prefix
    /\ WordRun(text, k + 5) >= 1
    /\ k + 5 + WordRun(text, k + 5) < Len(text)
    /\ At(text, k + 5 + WordRun(text, k + 5)) = "]"

\* match.end() of the match at offset k
MatchEnd(text, k) == k + 5 + WordRun(text, k + 5) + 1

\* re.finditer(pattern, text): the non-overlapping matches from offset k on,
\* left to right, each as [start, end, group1]
RECURSIVE FindIter(_, _)
FindIter(text, k) ==
    IF k >= Len(text) THEN <<>>
    ELSE IF MatchesAt(text, k)
         THEN <<[start |-> k, end |-> MatchEnd(text, k),
                 group1 |-> Slice(text, k + 5, MatchEnd(text, k) - 1)]>>
              \o FindIter(text, MatchEnd(text, k))
         ELSE FindIter(text, k + 1)

\* --------------------------------------------------- _extract_tool_calls
\* s[k] raises no IndexError
InBounds(s, k) == 0 - Len(s) <= k /\ k < Len(s)

\* the bounds test that lets the offset of the end of the text through
ParenGuard_Inclusive(text, start_pos) == start_pos <= Len(text)

\* line 662, first conjunct: the bounds test before text[start_pos] is read
ParenGuard(text, start_pos) == start_pos < Len(text)

\* the match is followed by an opening parenthesis (line 662)
HasOpenParen(text, start_pos) ==
    ParenGuard(text, start_pos) /\ At(text, start_pos) = "("

\* a backslash that follows a backslash escapes nothing
IsUnescapedQuote_Paired(text, i) ==
    /\ At(text, i) \in {DQ, SQ}
    /\ \/ i = 0
       \/ At(text, i - 1) # BS
       \/ i >= 2 /\ At(text, i - 2) = BS

\* the quote test of line 673
IsUnescapedQuote(text, i) ==
    At(text, i) \in {DQ, SQ} /\ (i = 0 \/ At(text, i - 1) # BS)

\* no quoted region ever opened
QuoteAfter_Never(f, i) ==
    [in_quotes |-> f.in_quotes, quote_char |-> f.quote_char]

\* lines 673-679: the quote state after the character at offset i
QuoteAfter(f, i) ==
    IF IsUnescapedQuote(f.text, i)
    THEN IF ~f.in_quotes
         THEN [in_quotes |-> TRUE, quote_char |-> At(f.text, i)]
         ELSE IF At(f.text, i) = f.quote_char
              THEN [in_quotes |-> FALSE, quote_char |-> None]
              ELSE [in_quotes |-> f.in_quotes, quote_char |-> f.quote_char]
    ELSE [in_quotes |-> f.in_quotes, quote_char |-> f.quote_char]

\* parentheses counted inside quoted regions as well
CountAfter_Unquoted(paren_count, in_quotes, char) ==
    IF char = "(" THEN paren_count + 1
    ELSE IF char = ")" THEN paren_count - 1
    ELSE paren_count

\* lines 682-686: the parenthesis count after a character, given the quote
\* state that line 673-679 left
CountAfter(paren_count, in_quotes, char) ==
    IF ~in_quotes
    THEN IF char = "(" THEN paren_count + 1
         ELSE IF char = ")" THEN paren_count - 1
         ELSE paren_count
    ELSE paren_count

\* lines 687-689: the scan stops at this character
ClosesCall(paren_count, in_quotes, char) ==
    ~in_quotes /\ char = ")" /\ CountAfter(paren_count, in_quotes, char) = 0

\* the offset after the closing parenthesis instead of its own
EndPosAt_After(i) == i + 1

\* line 688: the offset recorded for the closing parenthesis met at offset i
EndPosAt(i) == i

\* the arguments cut from the opening parenthesis on
Invocation_FromParen(f) ==
    [tool |-> f.tool_name,
     args |-> Strip(Slice(f.text, f.start_pos, f.end_pos)),
     start |-> f.match_start, open |-> f.start_pos, close |-> f.end_pos]

\* lines 692-697: the invocation appended for a finished scan; start, open
\* and close are the offsets match.start(), start_pos and end_pos it was
\* found at
Invocation(f) ==
    [tool |-> f.tool_name,
     args |-> Strip(Slice(f.text, f.start_pos + 1, f.end_pos)),
     start |-> f.match_start, open |-> f.start_pos, close |-> f.end_pos]

\* the frame of _extract_tool_calls on entry
ExtractInit(text) ==
    [text |-> text, matches |-> FindIter(text, 0), k |-> 0,
     tool_calls |-> <<>>, tool_name |-> None, match_start |-> 0,
     start_pos |-> 0, paren_count |-> 0, in_quotes |-> FALSE,
     quote_char |-> None, end_pos |-> 0, i |-> 0, pc |-> "for_match"]

\* line 657-667: take the next match, or leave the loop
ForMatch(f) ==
    IF f.k >= Len(f.matches) THEN [f EXCEPT !.pc = "return"]
    ELSE LET match == f.matches[f.k + 1] IN
         IF ParenGuard(f.text, match.end) /\ ~InBounds(f.text, match.end)
         THEN [f EXCEPT !.k = f.k + 1, !.tool_name = match.group1,
                        !.match_start = match.start, !.start_pos = match.end,
                        !.pc = "raise"]
         ELSE IF HasOpenParen(f.text, match.end)
         THEN [f EXCEPT !.k = f.k + 1, !.tool_name = match.group1,
                        !.match_start = match.start, !.start_pos = match.end,
                        !.paren_count = 0, !.in_quotes = FALSE,
                        !.quote_char = None, !.end_pos = match.end,
                        !.i = match.end, !.pc = "for_i"]
         ELSE [f EXCEPT !.k = f.k + 1, !.tool_name = match.group1,
                        !.match_start = match.start, !.start_pos = match.end]

\* lines 669-689: one iteration of the scan, or the end of range()
ForI(f) ==
    IF f.i >= Len(f.text) THEN [f EXCEPT !.pc = "extract"]
    ELSE LET char == At(f.text, f.i)
             q == QuoteAfter(f, f.i)
         IN  IF ClosesCall(f.paren_count, q.in_quotes, char)
             THEN [f EXCEPT !.in_quotes = q.in_quotes,
                            !.quote_char = q.quote_char,
                            !.paren_count =
                                CountAfter(f.paren_count, q.in_quotes, char),
                            !.end_pos = EndPosAt(f.i), !.pc = "extract"]
             ELSE [f EXCEPT !.in_quotes = q.in_quotes,
                            !.quote_char = q.quote_char,
                            !.paren_count =
                                CountAfter(f.paren_count, q.in_quotes, char),
                            !.i = f.i + 1]

\* the invocation appended whether or not the scan found its end
Extract_Unterminated(f) ==
    [f EXCEPT !.tool_calls = Append(f.tool_calls, Invocation(f)),
              !.pc = "for_match"]

\* the invocation put in front of the list
Extract_Prepend(f) ==
    IF f.end_pos > f.start_pos
    THEN [f EXCEPT !.tool_calls = <<Invocation(f)>> \o f.tool_calls,
                   !.pc = "for_match"]
    ELSE [f EXCEPT !.pc = "for_match"]

\* a marker inside the span of the invocation located before it is dropped
Extract_Outermost(f) ==
    IF /\ f.end_pos > f.start_pos
       /\ \/ f.tool_calls = <<>>
          \/ f.tool_calls[Len(f.tool_calls)].close < f.match_start
    THEN [f EXCEPT !.tool_calls = Append(f.tool_calls, Invocation(f)),
                   !.pc = "for_match"]
    ELSE [f EXCEPT !.pc = "for_match"]

\* lines 692-697: append the invocation when a closing parenthesis was found
Extract(f) ==
    IF f.end_pos > f.start_pos
    THEN [f EXCEPT !.tool_calls = Append(f.tool_calls, Invocation(f)),
                   !.pc = "for_match"]
    ELSE [f EXCEPT !.pc = "for_match"]

\* one step of _extract_tool_calls
ExtractStep(f) ==
    CASE f.pc = "for_match" -> ForMatch(f)
      [] f.pc = "for_i" -> ForI(f)
      [] f.pc = "extract" -> Extract(f)
      [] OTHER -> f

RECURSIVE ExtractRun(_)
ExtractRun(f) ==
    IF f.pc \in {"return", "raise"} THEN f ELSE ExtractRun(ExtractStep(f))

\* _extract_tool_calls(text), line 699
ExtractToolCalls(text) == ExtractRun(ExtractInit(text)).tool_calls

\* ------------------------------------------------------------ _parse_args
\* escape sequences handled outside quoted regions as well
IsEscape_Unquoted(p) ==
    At(p.args_str, p.i) = BS /\ p.i + 1 < Len(p.args_str)

\* line 714: the character at offset i starts an escape sequence
IsEscape(p) ==
    At(p.args_str, p.i) = BS /\ p.i + 1 < Len(p.args_str) /\ p.in_quotes

\* the quote test without the depth
IsQuoteToggle_AnyDepth(p) == At(p.args_str, p.i) \in {DQ, SQ}

\* line 724: the character at offset i is handled as a quote
IsQuoteToggle(p) ==
    At(p.args_str, p.i) \in {DQ, SQ} /\ p.paren_depth = 0

\* the depth counted inside quoted regions as well
DepthAfter_InQuotes(p, char) ==
    IF char = "(" THEN p.paren_depth + 1
    ELSE IF char = ")" THEN p.paren_depth - 1
    ELSE p.paren_depth

\* lines 737-741: the nested depth after a character
DepthAfter(p, char) ==
    IF ~p.in_quotes
    THEN IF char = "(" THEN p.paren_depth + 1
         ELSE IF char = ")" THEN p.paren_depth - 1
         ELSE p.paren_depth
    ELSE p.paren_depth

\* the comma test without the quote state
SplitsHere_InQuotes(char, in_quotes, paren_depth) ==
    char = "," /\ paren_depth = 0

\* line 744: the comma test, on the depth lines 737-741 left
SplitsHere(char, in_quotes, paren_depth) ==
    char = "," /\ ~in_quotes /\ paren_depth = 0

\* the escape sequence collapsed to the character it escapes
EscapeCopy_Collapsed(p) ==
    IF p.i + 1 < Len(p.args_str)
    THEN <<At(p.args_str, p.i + 1)>>
    ELSE <<At(p.args_str, p.i)>>

\* lines 716-720: the characters an escape sequence adds to the argument
EscapeCopy(p) ==
    IF p.i + 1 < Len(p.args_str)
    THEN <<At(p.args_str, p.i), At(p.args_str, p.i + 1)>>
    ELSE <<At(p.args_str, p.i)>>

\* the buffer stored as it is
Completed_Unstripped(current_arg) == current_arg

\* lines 745 and 754: the argument stored for a buffer
Completed(current_arg) == Strip(current_arg)

\* s[k] raises no IndexError
Readable(s, k) == 0 - Len(s) <= k /\ k < Len(s)

\* the loop entered once more at the end of the string
LoopGuard_Inclusive(p) == p.i <= Len(p.args_str)

\* line 710: the condition of the while loop
LoopGuard(p) == p.i < Len(p.args_str)

\* the frame of _parse_args on entry, lines 703-708
ParseInit(args_str) ==
    [args_str |-> args_str, args |-> <<>>, current_arg |-> <<>>,
     in_quotes |-> FALSE, quote_char |-> None, paren_depth |-> 0, i |-> 0,
     pc |-> "while"]

\* lines 714-721: the escape branch
EscapeBranch(p) ==
    [p EXCEPT !.current_arg = p.current_arg \o EscapeCopy(p), !.i = p.i + 2]

\* lines 724-734: the quote branch
QuoteBranch(p) ==
    LET char == At(p.args_str, p.i) IN
    IF ~p.in_quotes
    THEN [p EXCEPT !.in_quotes = TRUE, !.quote_char = char, !.i = p.i + 1]
    ELSE IF char = p.quote_char
         THEN [p EXCEPT !.in_quotes = FALSE, !.quote_char = None,
                        !.i = p.i + 1]
         ELSE [p EXCEPT !.current_arg = Append(p.current_arg, char),
                        !.i = p.i + 1]

\* a comma after an empty buffer starts no argument
PlainBranch_SkipEmpty(p) ==
    LET char == At(p.args_str, p.i)
        depth == DepthAfter(p, char)
    IN  IF SplitsHere(char, p.in_quotes, depth)
        THEN [p EXCEPT !.paren_depth = depth,
                       !.args = IF Completed(p.current_arg) = <<>> THEN p.args
                                ELSE Append(p.args, Completed(p.current_arg)),
                       !.current_arg = <<>>, !.i = p.i + 1]
        ELSE [p EXCEPT !.paren_depth = depth,
                       !.current_arg = Append(p.current_arg, char),
                       !.i = p.i + 1]

\* lines 737-750: depth tracking, then split or copy
PlainBranch(p) ==
    LET char == At(p.args_str, p.i)
        depth == DepthAfter(p, char)
    IN  IF SplitsHere(char, p.in_quotes, depth)
        THEN [p EXCEPT !.paren_depth = depth,
                       !.args = Append(p.args, Completed(p.current_arg)),
                       !.current_arg = <<>>, !.i = p.i + 1]
        ELSE [p EXCEPT !.paren_depth = depth,
                       !.current_arg = Append(p.current_arg, char),
                       !.i = p.i + 1]

\* the buffer left after the scan always becomes an argument
EmitsFinal_Always(current_arg) == TRUE

\* lines 753-754: the buffer left after the scan becomes the last argument
EmitsFinal(current_arg) == Strip(current_arg) # <<>>

\* lines 752-756: leave the loop and build the tuple
ParseReturn(p) ==
    IF EmitsFinal(p.current_arg)
    THEN [p EXCEPT !.args = Append(p.args, Completed(p.current_arg)),
                   !.pc = "return"]
    ELSE [p EXCEPT !.pc = "return"]

\* lines 710-756: one iteration of the while loop, or the return
ParseStep(p) ==
    IF p.pc # "while" THEN p
    ELSE IF ~LoopGuard(p) THEN ParseReturn(p)
    ELSE IF ~Readable(p.args_str, p.i) THEN [p EXCEPT !.pc = "raise"]
    ELSE IF IsEscape(p) THEN EscapeBranch(p)
    ELSE IF IsQuoteToggle(p) THEN QuoteBranch(p)
    ELSE PlainBranch(p)

RECURSIVE ParseRun(_)
ParseRun(p) == IF p.pc # "while" THEN p ELSE ParseRun(ParseStep(p))

\* _parse_args(args_str), line 756
ParseArgs(args_str) == ParseRun(ParseInit(args_str)).args

\* ------------------------------------------------------------------ inputs
\* test_parsing.py line 153 and test_tools.py line 70
TextSingle ==
    <<"L", "e", "t", " ", "m", "e", " ", "r", "e", "a", "d", " ", "t", "h",
      "a", "t", ".", "\n", "\n", "T", "O", "O", "L", "[", "r", "e", "a",
      "d", "_", "f", "i", "l", "e", "]", "(", "m", "a", "i", "n", ".", "p",
      "y", ")", "\n", "\n", "N", "o", "w", " ", "a", "n", "a", "l", "y",
      "z", "i", "n", "g", ".", ".", ".">>

\* test_parsing.py line 155
TextMultiple ==
    <<"F", "i", "r", "s", "t", ":", "\n", "T", "O", "O", "L", "[", "r",
      "e", "a", "d", "_", "f", "i", "l", "e", "]", "(", "a", ".", "p", "y",
      ")", "\n", "T", "h", "e", "n", ":", "\n", "T", "O", "O", "L", "[",
      "e", "d", "i", "t", "_", "f", "i", "l", "e", "]", "(", "\"", "a",
      ".", "p", "y", "\"", ",", " ", "\"", "o", "l", "d", "\"", ",", " ",
      "\"", "n", "e", "w", "\"", ")">>

\* test_tools.py line 79 followed by a second call
TextQuotedComma ==
    <<"T", "O", "O", "L", "[", "w", "r", "i", "t", "e", "_", "f", "i", "l",
      "e", "]", "(", "\"", "t", "e", "s", "t", ".", "t", "x", "t", "\"",
      ",", " ", "\"", "H", "e", "l", "l", "o", ",", " ", "w", "o", "r",
      "l", "d", "!", "\"", ")", "\n", "\n", "T", "O", "O", "L", "[", "r",
      "e", "a", "d", "_", "f", "i", "l", "e", "]", "(", "m", "a", "i", "n",
      ".", "p", "y", ")">>

\* a call whose quoted content holds parentheses
TextQuotedParen ==
    <<"T", "O", "O", "L", "[", "w", "r", "i", "t", "e", "_", "f", "i", "l",
      "e", "]", "(", "\"", "a", ".", "p", "y", "\"", ",", " ", "\"", "f",
      "(", "x", ")", ")", "\"", ")">>

\* a call whose quoted arguments hold a marker
TextNested ==
    <<"T", "O", "O", "L", "[", "a", "]", "(", "\"", "T", "O", "O", "L",
      "[", "b", "]", "(", "\"", ")", "\"", ")">>

\* a call whose bare argument holds an apostrophe
TextApostrophe ==
    <<"T", "O", "O", "L", "[", "a", "d", "d", "_", "t", "o", "d", "o", "]",
      "(", "D", "o", "n", "'", "t", " ", "s", "t", "o", "p", ")">>

\* test_tools.py line 20
ArgsSingle ==
    <<"m", "a", "i", "n", ".", "p", "y">>

\* test_tools.py line 28
ArgsTwo ==
    <<"\"", "t", "e", "s", "t", ".", "t", "x", "t", "\"", ",", " ", "\"",
      "H", "e", "l", "l", "o", " ", "w", "o", "r", "l", "d", "\"">>

\* test_tools.py line 36
ArgsCommas ==
    <<"\"", "c", "o", "n", "f", "i", "g", ".", "p", "y", "\"", ",", " ",
      "\"", "x", " ", "=", " ", "1", ",", " ", "y", " ", "=", " ", "2",
      ",", " ", "z", " ", "=", " ", "3", "\"">>

\* test_tools.py line 44
ArgsMultiLine ==
    <<"\"", "a", "p", "p", ".", "p", "y", "\"", ",", " ", "\"", "d", "e",
      "f", " ", "h", "e", "l", "l", "o", "(", ")", ":", "\\", "n", " ",
      " ", " ", " ", "p", "r", "i", "n", "t", "(", "'", "H", "i", "'", ")",
      "\\", "n", " ", " ", " ", " ", "r", "e", "t", "u", "r", "n", " ",
      "T", "r", "u", "e", "\"">>

\* test_parsing.py line 127
ArgsObject ==
    <<"\"", "f", "i", "l", "e", ".", "j", "s", "\"", ",", " ", "\"", "c",
      "o", "n", "s", "t", " ", "x", " ", "=", " ", "{", "a", ":", " ", "1",
      ",", " ", "b", ":", " ", "2", "}", ";", "\"">>

\* a quoted argument with escaped quotes of its own delimiter
ArgsEscapedQuote ==
    <<"\"", "a", ".", "p", "y", "\"", ",", " ", "\"", "s", "a", "y", " ",
      "\\", "\"", "h", "i", "\\", "\"", ",", " ", "o", "k", "\"">>

\* the marker TOOL[a] and TOOL[b]
MarkerA == <<"T", "O", "O", "L", "[", "a", "]">>
MarkerB == <<"T", "O", "O", "L", "[", "b", "]">>

\* responses given whole
LocExamples ==
    {TextSingle, TextMultiple, TextQuotedComma, TextQuotedParen, TextNested,
     TextApostrophe}

\* beginnings of the responses that are typed fragment by fragment
LocPrefixes ==
    {<<>>, MarkerA \o <<"(">>,
     MarkerA \o <<"(", DQ, "x", ",", " ", "y", DQ, ")">>}

\* the fragments a typed response is made of
Fragments ==
    {MarkerB, <<"(">>, <<")">>, <<DQ>>, <<SQ>>, <<BS>>, <<" ">>, <<"x">>}

\* argument strings given whole
SplitExamples ==
    {ArgsSingle, ArgsTwo, ArgsCommas, ArgsMultiLine, ArgsObject,
     ArgsEscapedQuote}

\* beginnings of the argument strings that are typed character by character
SplitPrefixes == {<<>>, <<DQ, "a">>}

\* the characters a typed argument string is made of
SplitChars == {"x", " ", ",", DQ, SQ, BS, "(", ")"}

\* ------------------------------------------------------------------- state
VARIABLES
    phase,     \* "input", "extract" or "parse": what is running
    text,      \* the response handed to _extract_tool_calls
    args_str,  \* the string handed to _parse_args
    budget,    \* fragments or characters that may still be typed
    ex,        \* the frame of _extract_tool_calls
    pa,        \* the frame of _parse_args
    tokens,    \* the argument tokens a synthetic invocation is built from
    out,       \* the argument tuples of the located invocations, in order
    agent,     \* the fields of the EnhancedCodeAgent a chat turn touches
    turn       \* the frames of chat, call_ollama and execute_tool_calls

vars == <<phase, text, args_str, budget, ex, pa, tokens, out, agent, turn>>

\* frames of calls that have not been made
ExIdle == [ExtractInit(<<>>) EXCEPT !.pc = "idle"]
PaIdle == [ParseInit(<<>>) EXCEPT !.pc = "idle"]

\* the command of a handler that runs none
NoCommand == [exits |-> TRUE, after |-> 0]

\* ------------------------------------------------------------ tool registry
read_file == <<"r", "e", "a", "d", "_", "f", "i", "l", "e">>
write_file == <<"w", "r", "i", "t", "e", "_", "f", "i", "l", "e">>
edit_file == <<"e", "d", "i", "t", "_", "f", "i", "l", "e">>
run_command == <<"r", "u", "n", "_", "c", "o", "m", "m", "a", "n", "d">>
list_files == <<"l", "i", "s", "t", "_", "f", "i", "l", "e", "s">>
search_files == <<"s", "e", "a", "r", "c", "h", "_", "f", "i", "l", "e", "s">>
create_directory ==
    <<"c", "r", "e", "a", "t", "e", "_", "d", "i", "r", "e", "c", "t", "o",
      "r", "y">>
add_todo == <<"a", "d", "d", "_", "t", "o", "d", "o">>
update_todo == <<"u", "p", "d", "a", "t", "e", "_", "t", "o", "d", "o">>
show_todos == <<"s", "h", "o", "w", "_", "t", "o", "d", "o", "s">>

\* lines 217-280: the keys of self.tools
Tools ==
    {read_file, write_file, edit_file, run_command, list_files, search_files,
     create_directory, add_todo, update_todo, show_todos}

\* the callable _register_tools binds to a name: a method of the agent, or
\* the lambda of line 247 or line 277
Handler(name) ==
    CASE name = read_file -> "_read_file"
      [] name = write_file -> "_write_file"
      [] name = edit_file -> "_edit_file"
      [] name = run_command -> "_run_command"
      [] name = list_files -> "lambda *args: self._list_files(...)"
      [] name = search_files -> "_search_files"
      [] name = create_directory -> "_create_directory"
      [] name = add_todo -> "_add_todo"
      [] name = update_todo -> "_update_todo"
      [] name = show_todos -> "lambda *args: self._show_todos()"

\* lines 216-280: the dictionary _register_tools returns
RegisterTools == [name \in Tools |-> Handler(name)]

\* line 204: the model the agent is constructed with, and a name /model may
\* give
Models == {"llama3.2", "other"}

\* line 207: Path.cwd() at construction, and a directory /cd may name
Directories == {"cwd", "dir"}

\* lines 203-215: the agent after construction
AgentInit ==
    [model |-> "llama3.2", conversation_history |-> <<>>,
     working_directory |-> "cwd", tools |-> RegisterTools,
     todo_list |-> <<>>, project_context |-> <<>>]

\* the frames of a chat turn that has not begun
TurnIdle ==
    [pc |-> "idle", full_response |-> <<>>, token_count |-> 0,
     response |-> <<>>, tool_calls |-> <<>>, call |-> 0, args |-> <<>>,
     outcome |-> "ok", command |-> NoCommand, results |-> <<>>,
     log |-> <<>>, final_response |-> <<>>]

\* ----------------------------------------- _extract_tool_calls, step by step
InitLoc ==
    /\ phase = "input"
    /\ \/ text \in LocExamples /\ budget = 0
       \/ text \in LocPrefixes /\ budget = MaxFrags
    /\ args_str = <<>>
    /\ ex = ExIdle
    /\ pa = PaIdle
    /\ tokens = <<>>
    /\ out = <<>>
    /\ agent = AgentInit
    /\ turn = TurnIdle

\* the response grows by one fragment
TypeFragment ==
    /\ phase = "input"
    /\ budget > 0
    /\ \E fr \in Fragments : text' = text \o fr
    /\ budget' = budget - 1
    /\ UNCHANGED <<agent, turn, phase, args_str, ex, pa, tokens, out>>

\* line 817: execute_tool_calls hands the response to _extract_tool_calls
CallExtract ==
    /\ phase = "input"
    /\ phase' = "extract"
    /\ ex' = ExtractInit(text)
    /\ budget' = 0
    /\ UNCHANGED <<agent, turn, text, args_str, pa, tokens, out>>

\* line 657: the loop over the matches
NextMatch ==
    /\ phase = "extract"
    /\ ex.pc = "for_match"
    /\ ex' = ForMatch(ex)
    /\ UNCHANGED <<agent, turn, phase, text, args_str, budget, pa, tokens, out>>

\* lines 669-689: the scan reads one character
ScanChar ==
    /\ phase = "extract"
    /\ ex.pc = "for_i"
    /\ ex' = ForI(ex)
    /\ UNCHANGED <<agent, turn, phase, text, args_str, budget, pa, tokens, out>>

\* lines 692-697: the scan is over
EmitCall ==
    /\ phase = "extract"
    /\ ex.pc = "extract"
    /\ ex' = Extract(ex)
    /\ UNCHANGED <<agent, turn, phase, text, args_str, budget, pa, tokens, out>>

NextLoc == TypeFragment \/ CallExtract \/ NextMatch \/ ScanChar \/ EmitCall

SpecLoc == InitLoc /\ [][NextLoc]_vars

\* ------------------------------------------------- _parse_args, step by step
InitSplit ==
    /\ phase = "input"
    /\ \/ args_str \in SplitExamples /\ budget = 0
       \/ args_str \in SplitPrefixes /\ budget = MaxLen
    /\ text = <<>>
    /\ ex = ExIdle
    /\ pa = PaIdle
    /\ tokens = <<>>
    /\ out = <<>>
    /\ agent = AgentInit
    /\ turn = TurnIdle

\* the argument string grows by one character
TypeChar ==
    /\ phase = "input"
    /\ budget > 0
    /\ \E c \in SplitChars : args_str' = Append(args_str, c)
    /\ budget' = budget - 1
    /\ UNCHANGED <<agent, turn, phase, text, ex, pa, tokens, out>>

\* line 833: dispatch hands the raw arguments to _parse_args
CallParse ==
    /\ phase = "input"
    /\ phase' = "parse"
    /\ pa' = ParseInit(args_str)
    /\ budget' = 0
    /\ UNCHANGED <<agent, turn, text, args_str, ex, tokens, out>>

\* lines 710-750: one iteration of the while loop
LoopIteration ==
    /\ phase = "parse"
    /\ pa.pc = "while"
    /\ LoopGuard(pa)
    /\ pa' = ParseStep(pa)
    /\ UNCHANGED <<agent, turn, phase, text, args_str, budget, ex, tokens, out>>

\* lines 752-756: the loop is left and the tuple returned
ReturnStep ==
    /\ phase = "parse"
    /\ pa.pc = "while"
    /\ ~LoopGuard(pa)
    /\ pa' = ParseStep(pa)
    /\ UNCHANGED <<agent, turn, phase, text, args_str, budget, ex, tokens, out>>

NextSplit == TypeChar \/ CallParse \/ LoopIteration \/ ReturnStep

SpecSplit == InitSplit /\ [][NextSplit]_vars

\* the interpreter runs the loop to its end
FairSplit == SpecSplit /\ WF_vars(NextSplit)

\* ------------------------------- a synthetic invocation, located and split
\* what a token is made of: plain characters, a marker, and escaped forms of
\* the characters that delimit arguments
TokenUnits ==
    {<<"x">>, <<" ">>, <<BS>>, MarkerB, <<BS, ",">>, <<BS, DQ>>, <<BS, "(">>}

\* sep.join(toks)
RECURSIVE Join(_, _)
Join(toks, sep) ==
    IF toks = <<>> THEN <<>>
    ELSE IF Len(toks) = 1 THEN toks[1]
    ELSE toks[1] \o sep \o Join(Tail(toks), sep)

\* the tokens joined with ", " and wrapped as TOOL[a](...)
Wrapped(toks) == MarkerA \o <<"(">> \o Join(toks, <<",", " ">>) \o <<")">>

InitRT ==
    /\ phase = "tokens"
    /\ tokens = <<>>
    /\ budget = MaxUnits
    /\ text = <<>>
    /\ args_str = <<>>
    /\ ex = ExIdle
    /\ pa = PaIdle
    /\ out = <<>>
    /\ agent = AgentInit
    /\ turn = TurnIdle

\* the list grows by one empty token
NewToken ==
    /\ phase = "tokens"
    /\ Len(tokens) < MaxTokens
    /\ tokens' = Append(tokens, <<>>)
    /\ UNCHANGED <<agent, turn, phase, text, args_str, budget, ex, pa, out>>

\* the last token grows by one unit
GrowToken ==
    /\ phase = "tokens"
    /\ tokens # <<>>
    /\ budget > 0
    /\ \E u \in TokenUnits :
          tokens' = [tokens EXCEPT ![Len(tokens)] = @ \o u]
    /\ budget' = budget - 1
    /\ UNCHANGED <<agent, turn, phase, text, args_str, ex, pa, out>>

\* the synthetic response is built
Wrap ==
    /\ phase = "tokens"
    /\ phase' = "wrapped"
    /\ text' = Wrapped(tokens)
    /\ budget' = 0
    /\ UNCHANGED <<agent, turn, args_str, ex, pa, tokens, out>>

\* line 817: the invocations of the response are located
Locate ==
    /\ phase = "wrapped"
    /\ phase' = "located"
    /\ ex' = ExtractRun(ExtractInit(text))
    /\ UNCHANGED <<agent, turn, text, args_str, budget, pa, tokens, out>>

\* lines 825 and 833: the raw arguments of each invocation are split
SplitAll ==
    /\ phase = "located"
    /\ phase' = "split"
    /\ out' = [k \in 1..Len(ex.tool_calls) |-> ParseArgs(ex.tool_calls[k].args)]
    /\ UNCHANGED <<agent, turn, text, args_str, budget, ex, pa, tokens>>

NextRT == NewToken \/ GrowToken \/ Wrap \/ Locate \/ SplitAll

SpecRT == InitRT /\ [][NextRT]_vars

\* ------------------------------------------------------- calls of handlers
\* the registered callables that take *args (lines 247 and 277)
Variadic == {list_files, show_todos}

\* the number of positional parameters of the bound method registered for a
\* tool that is not variadic
Params(tool) ==
    CASE tool \in {read_file, run_command, search_files, create_directory,
                   add_todo} -> 1
      [] tool \in {write_file, update_todo} -> 2
      [] tool = edit_file -> 3

\* line 199: self.func(*args) binds its arguments, or raises TypeError
Binds(tool, args) ==
    IF tool \in Variadic THEN TRUE ELSE Len(args) = Params(tool)

\* str(e) of the TypeError of a call with the wrong number of arguments; the
\* interpreter words it, the two units stand for its two wordings
TypeErrorMessage(tool, args) ==
    <<"EnhancedCodeAgent._">> \o tool
        \o (IF Len(args) < Params(tool)
            THEN <<"() missing required positional arguments">>
            ELSE <<"() takes fewer positional arguments than were given">>)

\* the result without the name
UnknownTool_Unnamed(tool_name) == <<"Error: Unknown tool">>

\* line 829: the result for a name that is not in self.tools
UnknownTool(tool_name) == <<"Error: Unknown tool '">> \o tool_name \o <<"'">>

\* line 838: the result for a failure caught by execute_tool_calls
ErrorExecuting(tool_name, message) ==
    <<"Error executing ">> \o tool_name \o <<": ">> \o message

\* ----------------------------------------------------------------- handlers
\* line 387: the seconds subprocess.run waits for the command
WaitSeconds == 30

\* the commands the shell may be given: one that exits in time, one that
\* exits late, one that never exits
Commands ==
    {[exits |-> TRUE, after |-> 1], [exits |-> TRUE, after |-> WaitSeconds + 1],
     [exits |-> FALSE, after |-> 0]}

\* a wait without a bound
Expired_Unbounded(command) == FALSE

\* line 387: subprocess.run raises TimeoutExpired
Expired(command) == ~command.exits \/ command.after > WaitSeconds

\* line 397: the result of a command that exited
CommandExecuted == <<"Command executed. Exit code: ", "{returncode}", "\n", "{output}">>

\* line 399
TimedOut == <<"Error: Command timed out after 30 seconds">>

\* line 401
ErrorExecutingCommand == <<"Error executing command: ", "{e}">>

\* lines 376-401: _run_command returns; it does not while subprocess.run
\* waits for a command that never exits
Returns(command, fails) ==
    IF fails THEN TRUE ELSE IF Expired(command) THEN TRUE ELSE command.exits

\* lines 376-401: what _run_command returns; fails is an exception other
\* than TimeoutExpired raised inside its try block
RunCommand(command, fails) ==
    IF fails THEN ErrorExecutingCommand
    ELSE IF Expired(command) THEN TimedOut
    ELSE CommandExecuted

\* lines 282-311
ReadFile(filepath, outcome) ==
    CASE outcome = "missing" -> <<"Error: File not found: ">> \o filepath
      [] outcome = "ok" ->
            <<"Successfully read ", "{len(content)}", " characters from ">>
                \o filepath
      [] outcome = "error" -> <<"Error reading file: ", "{e}">>

\* lines 313-348
WriteFile(filepath, content, outcome) ==
    CASE outcome = "ok" -> <<"Successfully wrote to ">> \o filepath
      [] outcome = "error" -> <<"Error writing file: ", "{e}">>

\* line 361: sub in s; the empty string is in every string
IsIn(sub, s) ==
    \E k \in 0..(Len(s) - Len(sub)) : Slice(s, k, k + Len(sub)) = sub

\* the first occurrence replaced alone
RECURSIVE Replace_First(_, _, _, _)
Replace_First(s, k, old, new) ==
    IF old = <<>> THEN new \o s
    ELSE IF k + Len(old) > Len(s) THEN Slice(s, k, Len(s))
    ELSE IF Slice(s, k, k + Len(old)) = old
         THEN new \o Slice(s, k + Len(old), Len(s))
         ELSE <<At(s, k)>> \o Replace_First(s, k + 1, old, new)

\* line 364: s[k:].replace(old, new): the occurrences of old that do not
\* overlap, taken left to right, become new; an empty old puts new before
\* every character and at the end
RECURSIVE Replace(_, _, _, _)
Replace(s, k, old, new) ==
    IF old = <<>>
    THEN new \o (IF k < Len(s)
                 THEN <<At(s, k)>> \o Replace(s, k + 1, old, new)
                 ELSE <<>>)
    ELSE IF k + Len(old) > Len(s) THEN Slice(s, k, Len(s))
    ELSE IF Slice(s, k, k + Len(old)) = old
         THEN new \o Replace(s, k + Len(old), old, new)
         ELSE <<At(s, k)>> \o Replace(s, k + 1, old, new)

\* lines 357-373: what _edit_file can come to for a file that exists
EditOutcomes(old_content, old_text) ==
    IF IsIn(old_text, old_content) THEN {"ok", "error"}
    ELSE {"absent", "error"}

\* lines 360-365 and 373: the content of the file after _edit_file; a call
\* that raises leaves the file as it was, or cut short by the write
EditedContents(old_content, old_text, new_text, outcome) ==
    CASE outcome = "ok" -> {Replace(old_content, 0, old_text, new_text)}
      [] outcome = "absent" -> {old_content}
      [] outcome = "error" -> {old_content, <<>>}

\* lines 350-374
EditFile(filepath, old_text, new_text, outcome) ==
    CASE outcome = "missing" -> <<"Error: File not found: ">> \o filepath
      [] outcome = "absent" -> <<"Error: Text to replace not found in file">>
      [] outcome = "ok" -> <<"Successfully edited ">> \o filepath
      [] outcome = "error" -> <<"Error editing file: ", "{e}">>

\* lines 247 and 403-440: the lambda passes args[0], or "." in its place
ListFiles(args, outcome) ==
    LET directory == IF args # <<>> /\ args[1] # <<>> THEN args[1] ELSE <<".">>
    IN  CASE outcome = "missing" ->
                <<"Error: Directory not found: ">> \o directory
          [] outcome = "ok" -> <<"Listed contents of ">> \o directory
          [] outcome = "error" -> <<"Error listing directory: ", "{e}">>

\* lines 442-461
SearchFiles(pattern, outcome) ==
    CASE outcome = "absent" -> <<"No matches found">>
      [] outcome = "ok" ->
            <<"Found ", "{len(matches)}", " matches for '">> \o pattern
                \o <<"'">>
      [] outcome = "error" -> <<"Error searching: ", "{e}">>

\* lines 463-474
CreateDirectory(path, outcome) ==
    CASE outcome = "ok" -> <<"Successfully created ">> \o path
      [] outcome = "error" -> <<"Error creating directory: ", "{e}">>

\* lines 484-491
AddTodo(task, outcome) ==
    CASE outcome = "ok" -> <<"Added task: ">> \o task
      [] outcome = "error" -> <<"Error adding todo: ", "{e}">>

\* lines 506-512
ShowTodos(outcome) ==
    CASE outcome = "ok" -> <<"Displayed todo list">>
      [] outcome = "error" -> <<"Error showing todos: ", "{e}">>

\* line 497: the statuses _update_todo accepts
Statuses ==
    {<<"p", "e", "n", "d", "i", "n", "g">>,
     <<"i", "n", "_", "p", "r", "o", "g", "r", "e", "s", "s">>,
     <<"c", "o", "m", "p", "l", "e", "t", "e", "d">>}

Digits == <<"0", "1", "2", "3", "4", "5", "6", "7", "8", "9">>

\* the digits of a numeral, its sign and the surrounding whitespace dropped
Numeral(s) ==
    LET t == Strip(s)
    IN  IF t # <<>> /\ t[1] \in {"+", "-"} THEN Tail(t) ELSE t

\* int(s) raises no ValueError
IsInt(s) ==
    /\ Numeral(s) # <<>>
    /\ \A n \in 1..Len(Numeral(s)) : \E d \in 1..10 : Digits[d] = Numeral(s)[n]

RECURSIVE Value(_)
Value(u) ==
    IF u = <<>> THEN 0
    ELSE 10 * Value(SubSeq(u, 1, Len(u) - 1))
         + (CHOOSE d \in 0..9 : Digits[d + 1] = u[Len(u)])

\* int(s)
IntOf(s) ==
    IF Strip(s)[1] = "-" THEN 0 - Value(Numeral(s)) ELSE Value(Numeral(s))

\* lines 128-131: TodoList.add
Add(todos, content, status, active_form) ==
    Append(todos, [content |-> content, status |-> status,
                   active_form |-> active_form])

\* the index used without the test of line 135: a negative index counts
\* from the end of the list
Update_Wraps(todos, index, status) ==
    IF 0 <= index /\ index < Len(todos)
    THEN [todos EXCEPT ![index + 1].status = status]
    ELSE IF index < 0 /\ 0 - index <= Len(todos)
    THEN [todos EXCEPT ![Len(todos) + index + 1].status = status]
    ELSE todos

\* lines 133-139: TodoList.update with a status and no content
Update(todos, index, status) ==
    IF 0 <= index /\ index < Len(todos)
    THEN [todos EXCEPT ![index + 1].status = status]
    ELSE todos

\* lines 493-504
UpdateTodo(task_number, status) ==
    IF ~IsInt(task_number) THEN <<"Error updating todo: ", "{e}">>
    ELSE IF status \notin Statuses
    THEN <<"Error: Invalid status. Use pending, in_progress, or completed">>
    ELSE <<"Updated task ">> \o task_number \o <<" to ">> \o status

\* what the file system, the shell and the console may do to a handler
Outcomes(tool) ==
    CASE tool \in {read_file, list_files} -> {"ok", "missing", "error"}
      [] tool = edit_file -> {"ok", "missing", "absent", "error"}
      [] tool = search_files -> {"ok", "absent", "error"}
      [] tool = update_todo -> {"ok"}
      [] OTHER -> {"ok", "error"}

\* lines 282-512: the string the handler of a tool returns for its arguments
Result(tool, args, outcome, command) ==
    CASE tool = read_file -> ReadFile(args[1], outcome)
      [] tool = write_file -> WriteFile(args[1], args[2], outcome)
      [] tool = edit_file -> EditFile(args[1], args[2], args[3], outcome)
      [] tool = run_command -> RunCommand(command, outcome = "error")
      [] tool = list_files -> ListFiles(args, outcome)
      [] tool = search_files -> SearchFiles(args[1], outcome)
      [] tool = create_directory -> CreateDirectory(args[1], outcome)
      [] tool = add_todo -> AddTodo(args[1], outcome)
      [] tool = update_todo -> UpdateTodo(args[1], args[2])
      [] tool = show_todos -> ShowTodos(outcome)

\* lines 484-504: self.todo_list after the handler of a tool
TodoListAfter(todos, tool, args) ==
    CASE tool = add_todo ->
            Add(todos, args[1], <<"p", "e", "n", "d", "i", "n", "g">>,
                <<"Working on: ">> \o args[1])
      [] tool = update_todo /\ IsInt(args[1]) /\ args[2] \in Statuses ->
            Update(todos, IntOf(args[1]) - 1, args[2])
      [] OTHER -> todos

\* ------------------------------------------------- cleaning the response
\* the lookahead (?=\s|$|TOOL) of line 848 at offset k
Lookahead(response, k) ==
    \/ k = Len(response)
    \/ k < Len(response) /\ IsSpace(At(response, k))
    \/ k + 4 <= Len(response) /\ Slice(response, k, k + 4) = <<"T", "O", "O", "L">>

\* the offsets at which \((.*?)\)(?=\s|$|TOOL) may end for a parenthesis
\* opened at offset open
CleanEnds(response, open) ==
    {j \in (open + 1)..(Len(response) - 1) :
        At(response, j) = ")" /\ Lookahead(response, j + 1)}

\* the lazy (.*?) stops at the first of them
CleanEnd(response, open) ==
    CHOOSE j \in CleanEnds(response, open) : \A l \in CleanEnds(response, open) : j <= l

\* the pattern of line 848 matches at offset k
CleanMatchesAt(response, k) ==
    /\ MatchesAt(response, k)
    /\ MatchEnd(response, k) < Len(response)
    /\ At(response, MatchEnd(response, k)) = "("
    /\ CleanEnds(response, MatchEnd(response, k)) # {}

\* lines 847-852: re.sub of the pattern by '' from offset k on
RECURSIVE Sub(_, _)
Sub(response, k) ==
    IF k >= Len(response) THEN <<>>
    ELSE IF CleanMatchesAt(response, k)
         THEN Sub(response, CleanEnd(response, MatchEnd(response, k)) + 1)
         ELSE <<At(response, k)>> \o Sub(response, k + 1)

\* lines 847-852: cleaned_response
CleanedResponse(response) == Strip(Sub(response, 0))

\* the results joined without a separator
ToolResults_Run(results) == Join(results, <<>>)

\* line 843: tool_results
ToolResults(results) == Join(results, <<"\n">>)

\* line 854: what execute_tool_calls returns after a dispatch
Combined(response, results) ==
    CleanedResponse(response) \o <<"\n", "\n">> \o ToolResults(results)

\* ------------------------------------------------------------- chat inputs
\* TOOL[name]
Marker(name) == Prefix \o name \o <<"]">>

\* TOOL[name](arguments)
Call(name, arguments) == Marker(name) \o <<"(">> \o arguments \o <<")">>

\* the values of the 'response' key of the chunks the backend may stream
StreamTokens ==
    {Call(run_command, <<"x">>), Call(<<"n", "o", "p", "e">>, <<"x">>),
     Call(read_file, <<>>), Call(add_todo, <<"x">>), Marker(show_todos),
     <<"(">>, <<")">>, <<" ">>, <<DQ>>}

\* streamed values in which the quoted argument of one call holds the text
\* of another call
NestedTokens ==
    {Call(show_todos, <<DQ>> \o Call(show_todos, <<>>) \o <<DQ>>),
     Call(list_files, <<DQ>> \o Call(<<"n", "o", "p", "e">>, <<"x">>)
                          \o <<DQ>>),
     Call(list_files, <<SQ>> \o Call(read_file, <<>>) \o <<SQ>>),
     <<" ">>}

\* what the user may type: no @file mention, so that _process_file_mentions
\* returns it as it is (lines 916 and 912)
UserInputs == {<<"h", "i">>}

\* line 810: what call_ollama returns for a request that timed out
RequestTimedOut ==
    <<"Error: Request timed out. The model might be too slow.">>

\* --------------------------------------------------------------- chat turn
InitChat ==
    /\ phase = "chat"
    /\ text = <<>>
    /\ args_str = <<>>
    /\ budget = 0
    /\ ex = ExIdle
    /\ pa = PaIdle
    /\ tokens = <<>>
    /\ out = <<>>
    /\ agent = AgentInit
    /\ turn = TurnIdle

\* the responses the backend gives in a session, each in its last chunk
SessionTokens ==
    {Call(add_todo, <<"x">>), Call(<<"n", "o", "p", "e">>, <<"x">>),
     Call(read_file, <<>>)}

\* a turn whose response is streamed from NestedTokens
InitNested ==
    /\ phase = "nested"
    /\ text = <<>>
    /\ args_str = <<>>
    /\ budget = 0
    /\ ex = ExIdle
    /\ pa = PaIdle
    /\ tokens = <<>>
    /\ out = <<>>
    /\ agent = AgentInit
    /\ turn = TurnIdle

\* the values the backend may stream in this turn
Streamed ==
    IF phase = "nested" THEN NestedTokens
    ELSE IF phase = "session" THEN SessionTokens
    ELSE StreamTokens

\* one more entry of the trace of the turn
Logged(ev, call, data) ==
    Append(turn.log, [ev |-> ev, call |-> call, data |-> data])

\* lines 914-925: chat appends the user's message and calls call_ollama
Chat ==
    /\ phase \in {"chat", "nested", "session"}
    /\ turn.pc = "idle"
    /\ \E user_input \in UserInputs :
          agent' = [agent EXCEPT !.conversation_history =
                       Append(@, [role |-> "user", content |-> user_input])]
    /\ turn' = [turn EXCEPT !.pc = "post"]
    /\ UNCHANGED <<phase, text, args_str, budget, ex, pa, tokens, out>>

\* lines 782-785: the request is accepted and the stream opens
Post ==
    /\ turn.pc = "post"
    /\ turn' = [turn EXCEPT !.pc = "streaming", !.full_response = <<>>,
                            !.token_count = 0]
    /\ UNCHANGED <<phase, text, args_str, budget, ex, pa, tokens, out, agent>>

\* line 808: call_ollama returns the buffer to chat
Buffered(t) == [t EXCEPT !.pc = "execute", !.response = t.full_response]

\* the token put in front of the buffer
Accumulate_Prepend(full_response, token) == token \o full_response

\* line 795: full_response += token
Accumulate(full_response, token) == full_response \o token

\* lines 790-797: a chunk with a 'response' key and no 'done' flag
ReceiveToken ==
    /\ turn.pc = "streaming"
    /\ turn.token_count < MaxChunks
    /\ \E token \in Streamed :
          turn' = [turn EXCEPT !.full_response = Accumulate(@, token),
                               !.token_count = @ + 1,
                               !.log = Logged("token", 0, token)]
    /\ UNCHANGED <<phase, text, args_str, budget, ex, pa, tokens, out, agent>>

\* lines 790-808: the chunk that carries the 'done' flag, with a last token
\* or without one, ends the loop
ReceiveDone ==
    /\ turn.pc = "streaming"
    /\ \/ turn' = Buffered([turn EXCEPT !.log = Logged("done", 0, <<>>)])
       \/ /\ turn.token_count < MaxChunks
          /\ \E token \in Streamed :
                turn' = Buffered([turn EXCEPT
                            !.full_response = Accumulate(@, token),
                            !.token_count = @ + 1,
                            !.log = Logged("done", 0, token)])
    /\ UNCHANGED <<phase, text, args_str, budget, ex, pa, tokens, out, agent>>

\* lines 790 and 808: iter_lines ends though no chunk carried the flag
StreamEnds ==
    /\ turn.pc = "streaming"
    /\ turn' = Buffered([turn EXCEPT !.log = Logged("closed", 0, <<>>)])
    /\ UNCHANGED <<phase, text, args_str, budget, ex, pa, tokens, out, agent>>

\* lines 809-813: the request or the stream raises; what was buffered is
\* dropped
RequestFails ==
    /\ turn.pc \in {"post", "streaming"}
    /\ \E returned \in {RequestTimedOut, <<>>} :
          turn' = [turn EXCEPT !.pc = "execute", !.response = returned,
                               !.log = Logged("failed", 0, <<>>)]
    /\ UNCHANGED <<phase, text, args_str, budget, ex, pa, tokens, out, agent>>

\* the early return never taken
NoCalls_Never(tool_calls) == FALSE

\* line 819: not tool_calls
NoCalls(tool_calls) == tool_calls = <<>>

\* lines 817-823: execute_tool_calls locates the invocations of the response
\* and returns the response when there is none
ExecuteToolCalls ==
    /\ turn.pc = "execute"
    /\ LET tool_calls == ExtractToolCalls(turn.response)
           located == [turn EXCEPT !.tool_calls = tool_calls,
                                   !.log = Logged("locate", 0, turn.response)]
       IN  turn' = IF NoCalls(tool_calls)
                   THEN [located EXCEPT !.pc = "returned",
                                        !.final_response = turn.response]
                   ELSE [located EXCEPT !.pc = "for_call", !.call = 1,
                                        !.results = <<>>]
    /\ UNCHANGED <<phase, text, args_str, budget, ex, pa, tokens, out, agent>>

\* the loop left after its first invocation
LoopDone_First(t) == t.call > 1

\* line 825: the for loop has no invocation left
LoopDone(t) == t.call > Len(t.tool_calls)

\* line 826: tool_name of the invocation the loop is at
ToolName == turn.tool_calls[turn.call].tool

\* line 828: tool_name in self.tools
Registered(tool_name) == tool_name \in DOMAIN agent.tools

\* lines 828-830: a name that is not registered gives an error result and
\* the loop continues
UnknownCall ==
    /\ turn.pc = "for_call"
    /\ ~LoopDone(turn)
    /\ ~Registered(ToolName)
    /\ turn' = [turn EXCEPT !.results = Append(@, UnknownTool(ToolName)),
                            !.call = @ + 1]
    /\ UNCHANGED <<phase, text, args_str, budget, ex, pa, tokens, out, agent>>

\* a handler clause for ValueError alone
Caught_ValueError(exception) == exception = "ValueError"

\* line 837: except Exception catches the exceptions a call can raise
Caught(exception) == exception \in {"TypeError", "ValueError", "OSError"}

\* lines 832-840: the arguments are split; the call with a number of
\* arguments the handler does not take raises TypeError, which is caught
\* and turned into an error result
RaisingCall ==
    /\ turn.pc = "for_call"
    /\ ~LoopDone(turn)
    /\ Registered(ToolName)
    /\ LET args == ParseArgs(turn.tool_calls[turn.call].args)
       IN  /\ ~Binds(ToolName, args)
           /\ turn' =
                IF Caught("TypeError")
                THEN [turn EXCEPT
                        !.results = Append(@, ErrorExecuting(ToolName,
                                        TypeErrorMessage(ToolName, args))),
                        !.log = Logged("split", turn.call, args),
                        !.call = @ + 1]
                ELSE [turn EXCEPT !.pc = "raised",
                                  !.log = Logged("split", turn.call, args)]
    /\ UNCHANGED <<phase, text, args_str, budget, ex, pa, tokens, out, agent>>

\* lines 832-835: the arguments are split and tool.execute enters the
\* handler; the file system, the shell and the console it will meet are
\* fixed here
StartHandler ==
    /\ turn.pc = "for_call"
    /\ ~LoopDone(turn)
    /\ Registered(ToolName)
    /\ LET args == ParseArgs(turn.tool_calls[turn.call].args)
       IN  /\ Binds(ToolName, args)
           /\ \E outcome \in Outcomes(ToolName) :
              \E command \in IF ToolName = run_command THEN Commands
                             ELSE {NoCommand} :
                 turn' = [turn EXCEPT
                            !.pc = "handler", !.args = args,
                            !.outcome = outcome, !.command = command,
                            !.log = Append(Logged("split", turn.call, args),
                                           [ev |-> "start", call |-> turn.call,
                                            data |-> ToolName])]
    /\ UNCHANGED <<phase, text, args_str, budget, ex, pa, tokens, out, agent>>

\* line 836: the handler returns and its result is appended
HandlerReturns ==
    /\ turn.pc = "handler"
    /\ ToolName = run_command =>
          Returns(turn.command, turn.outcome = "error")
    /\ LET result == Result(ToolName, turn.args, turn.outcome, turn.command)
       IN  turn' = [turn EXCEPT !.pc = "for_call",
                                !.results = Append(@, result),
                                !.log = Logged("end", turn.call, result),
                                !.call = @ + 1]
    /\ agent' = [agent EXCEPT !.todo_list =
                    TodoListAfter(@, ToolName, turn.args)]
    /\ UNCHANGED <<phase, text, args_str, budget, ex, pa, tokens, out>>

\* lines 842-854: the results are joined and returned below the cleaned
\* response
Combine ==
    /\ turn.pc = "for_call"
    /\ LoopDone(turn)
    /\ turn' = [turn EXCEPT !.pc = "returned",
                            !.final_response =
                                Combined(turn.response, turn.results)]
    /\ UNCHANGED <<phase, text, args_str, budget, ex, pa, tokens, out, agent>>

\* lines 928-933: chat appends what execute_tool_calls returned
Reply ==
    /\ turn.pc = "returned"
    /\ agent' = [agent EXCEPT !.conversation_history =
                    Append(@, [role |-> "assistant",
                               content |-> turn.final_response])]
    /\ turn' = [turn EXCEPT !.pc = "done"]
    /\ UNCHANGED <<phase, text, args_str, budget, ex, pa, tokens, out>>

NextChat ==
    \/ Chat \/ Post \/ ReceiveToken \/ ReceiveDone \/ StreamEnds
    \/ RequestFails \/ ExecuteToolCalls \/ UnknownCall \/ RaisingCall
    \/ StartHandler \/ HandlerReturns \/ Combine \/ Reply

SpecChat == InitChat /\ [][NextChat]_vars

SpecNested == InitNested /\ [][NextChat]_vars

\* ----------------------------------------------------------------- session
\* the prompts of the main loop after the first
MaxInputs == 3

\* main, line 1032: the agent is constructed and the loop asks for input
InitSession ==
    /\ phase = "session"
    /\ text = <<>>
    /\ args_str = <<>>
    /\ budget = MaxInputs
    /\ ex = ExIdle
    /\ pa = PaIdle
    /\ tokens = <<>>
    /\ out = <<>>
    /\ agent = AgentInit
    /\ turn = TurnIdle

\* line 1039: Prompt.ask waits for a line
AtPrompt == phase = "session" /\ turn.pc = "idle" /\ budget > 0

\* the registry emptied with the history
Cleared_Registry(a) ==
    [a EXCEPT !.conversation_history = <<>>, !.tools = <<>>]

\* line 1054: agent.conversation_history = []
Cleared(a) == [a EXCEPT !.conversation_history = <<>>]

\* lines 1087-1092: the path becomes the working directory when it exists
\* and is a directory
ChangedDirectory(a, path, is_dir) ==
    IF is_dir THEN [a EXCEPT !.working_directory = path] ELSE a

\* line 1097: agent.model = cmd_parts[1]
Switched(a, name) == [a EXCEPT !.model = name]

\* lines 514-578: init_project saves its analysis
Initialised(a) == [a EXCEPT !.project_context = <<"{analysis}">>]

\* line 1124: the prompt /plan sends to chat
PlanPrompt(request) ==
    <<"Create a detailed step-by-step plan to accomplish this: ">>
        \o request
        \o <<". Break it down into specific tasks that can be tracked. Use the add_todo tool for each step.">>

\* lines 1053-1057: /clear
Clear ==
    /\ AtPrompt
    /\ agent' = Cleared(agent)
    /\ budget' = budget - 1
    /\ UNCHANGED <<phase, text, args_str, ex, pa, tokens, out, turn>>

\* lines 1085-1093: /cd with a path, or without one
ChangeDirectory ==
    /\ AtPrompt
    /\ \/ \E path \in Directories, is_dir \in BOOLEAN :
             agent' = ChangedDirectory(agent, path, is_dir)
       \/ agent' = agent
    /\ budget' = budget - 1
    /\ UNCHANGED <<phase, text, args_str, ex, pa, tokens, out, turn>>

\* lines 1095-1099: /model with a name, or without one
SwitchModel ==
    /\ AtPrompt
    /\ \/ \E name \in Models : agent' = Switched(agent, name)
       \/ agent' = agent
    /\ budget' = budget - 1
    /\ UNCHANGED <<phase, text, args_str, ex, pa, tokens, out, turn>>

\* lines 1112-1114: /init
InitProject ==
    /\ AtPrompt
    /\ agent' = Initialised(agent)
    /\ budget' = budget - 1
    /\ UNCHANGED <<phase, text, args_str, ex, pa, tokens, out, turn>>

\* lines 1116-1118: /todo displays the list
TodoCommand ==
    /\ AtPrompt
    /\ budget' = budget - 1
    /\ UNCHANGED <<phase, text, args_str, ex, pa, tokens, out, agent, turn>>

\* lines 1120-1130: /plan with a request calls chat with the plan prompt;
\* without one it prints its usage
Plan ==
    /\ AtPrompt
    /\ \/ \E request \in UserInputs :
             /\ agent' = [agent EXCEPT !.conversation_history =
                             Append(@, [role |-> "user",
                                        content |-> PlanPrompt(request)])]
             /\ turn' = [turn EXCEPT !.pc = "post"]
       \/ UNCHANGED <<agent, turn>>
    /\ budget' = budget - 1
    /\ UNCHANGED <<phase, text, args_str, ex, pa, tokens, out>>

\* lines 1137-1138: KeyboardInterrupt, which the handlers of lines 809-811
\* and 837 do not catch, leaves chat while the request, the stream or a
\* handler runs, and the loop goes on
Interrupt ==
    /\ phase = "session"
    /\ turn.pc \in {"post", "streaming", "handler"}
    /\ turn' = [turn EXCEPT !.pc = "interrupted"]
    /\ UNCHANGED <<phase, text, args_str, budget, ex, pa, tokens, out, agent>>

\* lines 1037-1039: chat has returned or was left; the loop asks again
NextPrompt ==
    /\ phase = "session"
    /\ turn.pc \in {"done", "interrupted"}
    /\ budget > 0
    /\ turn' = TurnIdle
    /\ budget' = budget - 1
    /\ UNCHANGED <<phase, text, args_str, ex, pa, tokens, out, agent>>

NextSession ==
    \/ Chat \/ Post \/ ReceiveDone \/ StreamEnds \/ RequestFails
    \/ ExecuteToolCalls \/ UnknownCall \/ RaisingCall \/ StartHandler
    \/ HandlerReturns \/ Combine \/ Reply \/ TodoCommand \/ Clear
    \/ ChangeDirectory \/ SwitchModel \/ InitProject \/ Plan \/ Interrupt
    \/ NextPrompt

SpecSession == InitSession /\ [][NextSession]_vars

\* --------------------------------------------------------------- _edit_file
\* the longest old_text and new_text
MaxEdit == 2

\* the strings of at most n characters a and b
RECURSIVE StringsUpTo(_)
StringsUpTo(n) ==
    IF n = 0 THEN {<<>>}
    ELSE StringsUpTo(n - 1)
         \cup {Append(s, c) : s \in StringsUpTo(n - 1), c \in {"a", "b"}}

\* the path of the file that is edited
EditPath == <<"f">>

\* a file with some content, and the arguments of a call of _edit_file
InitEdit ==
    /\ phase = "edit"
    /\ text \in StringsUpTo(MaxLen)
    /\ args_str = text
    /\ tokens \in {<<EditPath, old_text, new_text>> :
                      old_text \in StringsUpTo(MaxEdit),
                      new_text \in StringsUpTo(MaxEdit)}
    /\ budget = 0
    /\ ex = ExIdle
    /\ pa = PaIdle
    /\ out = <<>>
    /\ agent = AgentInit
    /\ turn = TurnIdle

\* lines 350-374: _edit_file(filepath, old_text, new_text); text is the
\* content of the file and args_str the content it had before the call
CallEditFile ==
    /\ phase = "edit"
    /\ phase' = "edited"
    /\ \E outcome \in EditOutcomes(text, tokens[2]) :
          /\ text' \in EditedContents(text, tokens[2], tokens[3], outcome)
          /\ out' = EditFile(tokens[1], tokens[2], tokens[3], outcome)
    /\ UNCHANGED <<args_str, budget, ex, pa, tokens, agent, turn>>

NextEdit == CallEditFile

SpecEdit == InitEdit /\ [][NextEdit]_vars

\* ----------------------------------------------------------------- todo list
\* the calls of the todo handlers in one run
MaxCalls == 4

\* the tasks add_todo is given
Tasks == {<<"x">>, <<"y">>}

\* the task numbers update_todo is given
TaskNumbers ==
    {<<"0">>, <<"1">>, <<"2">>, <<"-", "1">>, <<" ", "2">>, <<"9">>, <<"x">>}

\* the statuses update_todo is given
StatusInputs == Statuses \cup {<<"d", "o", "n", "e">>, <<>>}

\* an agent with an empty todo list; args_str is the tool called last and
\* tokens are its arguments
InitTodo ==
    /\ phase = "todo"
    /\ text = <<>>
    /\ args_str = <<>>
    /\ budget = MaxCalls
    /\ ex = ExIdle
    /\ pa = PaIdle
    /\ tokens = <<>>
    /\ out = <<>>
    /\ agent = AgentInit
    /\ turn = TurnIdle

\* lines 484-491: _add_todo(task)
CallAddTodo ==
    /\ phase = "todo"
    /\ budget > 0
    /\ \E task \in Tasks, outcome \in Outcomes(add_todo) :
          /\ args_str' = add_todo
          /\ tokens' = <<task>>
          /\ agent' = [agent EXCEPT !.todo_list =
                          TodoListAfter(@, add_todo, <<task>>)]
          /\ out' = Result(add_todo, <<task>>, outcome, NoCommand)
    /\ budget' = budget - 1
    /\ UNCHANGED <<phase, text, ex, pa, turn>>

\* lines 493-504: _update_todo(task_number, status)
CallUpdateTodo ==
    /\ phase = "todo"
    /\ budget > 0
    /\ \E task_number \in TaskNumbers, status \in StatusInputs :
          /\ args_str' = update_todo
          /\ tokens' = <<task_number, status>>
          /\ agent' = [agent EXCEPT !.todo_list =
                          TodoListAfter(@, update_todo,
                                        <<task_number, status>>)]
          /\ out' = Result(update_todo, <<task_number, status>>, "ok",
                           NoCommand)
    /\ budget' = budget - 1
    /\ UNCHANGED <<phase, text, ex, pa, turn>>

NextTodo == CallAddTodo \/ CallUpdateTodo

SpecTodo == InitTodo /\ [][NextTodo]_vars

\* ============================================================== Call Locator
Calls == ex.tool_calls

\* _extract_tool_calls has returned
Located == phase = "extract" /\ ex.pc = "return"

\* first offset from k on that holds character c, or the length of t
RECURSIVE FirstIndex(_, _, _)
FirstIndex(t, k, c) ==
    IF k >= Len(t) \/ At(t, k) = c THEN k ELSE FirstIndex(t, k + 1, c)

\* no character of t[a:b] is in set S
NoneIn(t, a, b, S) == \A k \in a..(b - 1) : At(t, k) \notin S

\* the closing parenthesis of a call whose arguments, opened at offset o, are
\* one double-quoted string without backslashes, or the length of t
QuotedClose(t, o) ==
    LET q2 == FirstIndex(t, o + 2, DQ) IN
    IF /\ o + 1 < Len(t) /\ At(t, o + 1) = DQ
       /\ q2 + 1 < Len(t) /\ At(t, q2 + 1) = ")"
       /\ NoneIn(t, o + 2, q2, {BS})
    THEN q2 + 1 ELSE Len(t)

\* the closing parenthesis of a call whose arguments, opened at offset o, are
\* bare text without quotes, parentheses or backslashes, or the length of t
BareClose(t, o) ==
    LET c == FirstIndex(t, o + 1, ")") IN
    IF c < Len(t) /\ NoneIn(t, o + 1, c, {DQ, SQ, BS, "("}) THEN c ELSE Len(t)

\* t holds exactly two markers, the first with one quoted string as its
\* arguments and the second, after the first call's end, with bare arguments
TwoCallsInSequence(t) ==
    LET ms == FindIter(t, 0) IN
    /\ Len(ms) = 2
    /\ HasOpenParen(t, ms[1].end)
    /\ HasOpenParen(t, ms[2].end)
    /\ QuotedClose(t, ms[1].end) < ms[2].start
    /\ BareClose(t, ms[2].end) < Len(t)

\* the invocation expected for match m of t closed at offset c
Expected(t, m, c) ==
    [tool |-> m.group1, args |-> Strip(Slice(t, m.end + 1, c)),
     start |-> m.start, open |-> m.end, close |-> c]

\* C1: the invocations are listed in strictly increasing order of the offset
\* of their marker, each offset being one where TOOL[name] begins; a text of
\* two calls in sequence, the first with a quoted string (commas included) as
\* its arguments, gives exactly the two invocations, first marker first, each
\* with its own argument span.
C1_MarkerOrder ==
    /\ \A j, k \in 1..Len(Calls) : j < k => Calls[j].start < Calls[k].start
    /\ \A j \in 1..Len(Calls) : MatchesAt(ex.text, Calls[j].start)
    /\ (Located /\ TwoCallsInSequence(ex.text)) =>
          LET ms == FindIter(ex.text, 0) IN
          Calls = <<Expected(ex.text, ms[1], QuotedClose(ex.text, ms[1].end)),
                    Expected(ex.text, ms[2], BareClose(ex.text, ms[2].end))>>

\* two calls in sequence were located, the first with a comma in its quotes
C1_Witness ==
    /\ Located
    /\ TwoCallsInSequence(ex.text)
    /\ Len(Calls) = 2
    /\ \E k \in (Calls[1].open + 2)..(Calls[1].close - 2) : At(ex.text, k) = ","

\* the spans, marker to closing parenthesis, of invocations j and k overlap
Overlap(j, k) ==
    Calls[j].start <= Calls[k].close /\ Calls[k].start <= Calls[j].close

\* C2 as stated: the spans of two invocations never overlap.
C2_NoOverlap ==
    \A j, k \in 1..Len(Calls) : j # k => ~Overlap(j, k)

\* C2 amended: the spans of two invocations overlap only when the marker and
\* the opening parenthesis of the later one lie inside the arguments of the
\* earlier one.
C2_OverlapOnlyInsideArgs ==
    \A j, k \in 1..Len(Calls) :
        (j < k /\ Overlap(j, k)) =>
            /\ Calls[j].open < Calls[k].start
            /\ Calls[k].open < Calls[j].close

\* two invocations were located whose spans overlap without one holding the
\* other
C2_Witness ==
    /\ Located
    /\ Len(Calls) = 2
    /\ Overlap(1, 2)
    /\ Calls[1].close < Calls[2].close

\* C3 as stated: the raw arguments are exactly the text between the opening
\* and the closing parenthesis.
C3_ExactSubstring ==
    \A j \in 1..Len(Calls) :
        Calls[j].args = Slice(ex.text, Calls[j].open + 1, Calls[j].close)

\* C3 amended: the raw arguments are the text between the opening
\* parenthesis that follows TOOL[name] and the closing parenthesis found for
\* it, with leading and trailing whitespace removed; the single call of
\* TextSingle gives exactly one invocation, read_file with main.py.
C3_StrippedSubstring ==
    /\ \A j \in 1..Len(Calls) :
          /\ MatchesAt(ex.text, Calls[j].start)
          /\ Calls[j].open = MatchEnd(ex.text, Calls[j].start)
          /\ Calls[j].tool =
                Slice(ex.text, Calls[j].start + 5, Calls[j].open - 1)
          /\ At(ex.text, Calls[j].open) = "("
          /\ Calls[j].open < Calls[j].close
          /\ At(ex.text, Calls[j].close) = ")"
          /\ Calls[j].args =
                Strip(Slice(ex.text, Calls[j].open + 1, Calls[j].close))
    /\ (Located /\ ex.text = TextSingle) =>
          /\ Len(Calls) = 1
          /\ Calls[1].tool = <<"r", "e", "a", "d", "_", "f", "i", "l", "e">>
          /\ Calls[1].args = <<"m", "a", "i", "n", ".", "p", "y">>

\* an invocation whose arguments are written with whitespace around them
C3_Witness ==
    /\ Located
    /\ \E j \in 1..Len(Calls) :
          /\ Calls[j].args # <<>>
          /\ Calls[j].args #
                Slice(ex.text, Calls[j].open + 1, Calls[j].close)

\* the quote region open after offset k of t, None outside quotes, for a scan
\* begun at offset a over text without backslashes
RECURSIVE RefQuote(_, _, _)
RefQuote(t, a, k) ==
    IF k < a THEN None
    ELSE LET prev == RefQuote(t, a, k - 1)
             c == At(t, k)
         IN  IF c \in {DQ, SQ}
             THEN IF prev = None THEN c ELSE IF prev = c THEN None ELSE prev
             ELSE prev

\* the depth after offset k of t: the parentheses outside quoted regions
RECURSIVE RefDepth(_, _, _)
RefDepth(t, a, k) ==
    IF k < a THEN 0
    ELSE RefDepth(t, a, k - 1)
         + (IF RefQuote(t, a, k) # None THEN 0
            ELSE IF At(t, k) = "(" THEN 1
            ELSE IF At(t, k) = ")" THEN 0 - 1
            ELSE 0)

\* offset k holds a closing parenthesis outside quotes that returns the depth
\* of the scan begun at offset a to zero
RefCloses(t, a, k) ==
    At(t, k) = ")" /\ RefQuote(t, a, k) = None /\ RefDepth(t, a, k) = 0

\* C4: parentheses inside a quoted region never change the depth: where the
\* scanned text holds no backslash, the span of an invocation ends at the
\* first closing parenthesis outside quotes that returns the depth to zero,
\* and a call that has such a parenthesis is located.
C4_QuotedParensIgnored ==
    /\ \A j \in 1..Len(Calls) :
          NoneIn(ex.text, Calls[j].open, Calls[j].close, {BS}) =>
              /\ RefCloses(ex.text, Calls[j].open, Calls[j].close)
              /\ \A k \in (Calls[j].open + 1)..(Calls[j].close - 1) :
                    ~RefCloses(ex.text, Calls[j].open, k)
    /\ Located =>
          \A n \in 1..Len(ex.matches) :
              \A k \in (ex.matches[n].end + 1)..(Len(ex.text) - 1) :
                  (/\ HasOpenParen(ex.text, ex.matches[n].end)
                   /\ NoneIn(ex.text, ex.matches[n].end, k, {BS})
                   /\ RefCloses(ex.text, ex.matches[n].end, k))
                  => \E j \in 1..Len(Calls) :
                        /\ Calls[j].open = ex.matches[n].end
                        /\ Calls[j].close <= k

\* an invocation whose quoted arguments hold a closing parenthesis
C4_Witness ==
    /\ Located
    /\ \E j \in 1..Len(Calls) :
          /\ NoneIn(ex.text, Calls[j].open, Calls[j].close, {BS})
          /\ \E k \in (Calls[j].open + 1)..(Calls[j].close - 1) :
                At(ex.text, k) = ")" /\ RefQuote(ex.text, Calls[j].open, k) # None

\* match n of the response is followed by an opening parenthesis
Opened(n) ==
    /\ ex.matches[n].end < Len(ex.text)
    /\ At(ex.text, ex.matches[n].end) = "("

\* match n of the response has been taken from the iterator
Taken(n) == n <= ex.k /\ (n = ex.k => ex.pc \in {"for_match", "return"})

\* C11: a marker whose next character is not an opening parenthesis, or that
\* ends the text, gives no invocation and no exception; the markers of the
\* same text that are followed by bare arguments and a closing parenthesis
\* are located all the same.
C11_SkipsUnopenedMarker ==
    /\ ex.pc # "raise"
    /\ \A n \in 1..Len(ex.matches) :
          ~Opened(n) =>
              \A j \in 1..Len(Calls) : Calls[j].start # ex.matches[n].start
    /\ \A n \in 1..Len(ex.matches) :
          (/\ Taken(n)
           /\ Opened(n)
           /\ BareClose(ex.text, ex.matches[n].end) < Len(ex.text)) =>
              \E j \in 1..Len(Calls) :
                  Calls[j] = Expected(ex.text, ex.matches[n],
                                      BareClose(ex.text, ex.matches[n].end))

\* a marker that ends the text was skipped after a call was located
C11_Witness ==
    /\ Located
    /\ Len(Calls) >= 1
    /\ \E n \in 1..Len(ex.matches) :
          /\ ex.matches[n].end = Len(ex.text)
          /\ \A j \in 1..Len(Calls) : Calls[j].start < ex.matches[n].start

\* C12: a scan that reaches the end of the text without the depth returning
\* to zero adds no invocation and raises nothing: the list is the same after
\* the scan, and where the text holds no backslash from the opening
\* parenthesis on and no parenthesis outside quotes returns the depth to
\* zero, no invocation is opened there.
C12_UnterminatedDiscarded ==
    /\ [](ex.pc # "raise")
    /\ [][(ex.pc = "for_i" /\ ex.i >= Len(ex.text)) =>
            ex'.pc = "extract" /\ ex'.tool_calls = ex.tool_calls]_vars
    /\ [][(ex.pc = "extract" /\ ex.i >= Len(ex.text)) =>
            ex'.pc = "for_match" /\ ex'.tool_calls = ex.tool_calls]_vars
    /\ [](\A n \in 1..Len(ex.matches) :
            (/\ Opened(n)
             /\ NoneIn(ex.text, ex.matches[n].end, Len(ex.text), {BS})
             /\ \A k \in (ex.matches[n].end + 1)..(Len(ex.text) - 1) :
                   ~RefCloses(ex.text, ex.matches[n].end, k))
            => \A j \in 1..Len(Calls) : Calls[j].open # ex.matches[n].end)

\* a call left open by an unclosed quote before its parenthesis was dropped
\* and the text returned
C12_Witness ==
    /\ Located
    /\ \E n \in 1..Len(ex.matches) :
          /\ Opened(n)
          /\ \E k \in (ex.matches[n].end + 1)..(Len(ex.text) - 1) :
                At(ex.text, k) = ")"
          /\ \A j \in 1..Len(Calls) : Calls[j].open # ex.matches[n].end

\* ========================================================= Argument Splitter
\* _parse_args is inside its loop, about to read the character at offset i
InLoop == phase = "parse" /\ pa.pc = "while" /\ LoopGuard(pa)

\* _parse_args has returned
Parsed == phase = "parse" /\ pa.pc = "return"

\* the scan is outside quotes and nested parentheses
TopLevel == ~pa.in_quotes /\ pa.paren_depth = 0

\* string s contains character c
Contains(s, c) == \E k \in 1..Len(s) : s[k] = c

\* C5: a comma starts a new argument exactly when the scan is outside quotes
\* at depth zero; every other comma, also one that follows a backslash in a
\* quoted region, is kept in the current argument, and nothing but such a
\* comma starts an argument; ArgsCommas gives exactly two arguments.
C5_CommaSplits ==
    /\ [][InLoop =>
            LET c == At(pa.args_str, pa.i) IN
            IF c = "," /\ TopLevel
            THEN /\ pa'.args = Append(pa.args, Strip(pa.current_arg))
                 /\ pa'.current_arg = <<>>
            ELSE /\ pa'.args = pa.args
                 /\ c = "," => pa'.current_arg = Append(pa.current_arg, ",")
                 /\ (IsEscape(pa) /\ At(pa.args_str, pa.i + 1) = ",") =>
                       pa'.current_arg = pa.current_arg \o <<BS, ",">>]_vars
    /\ [](Parsed /\ pa.args_str = ArgsCommas =>
            pa.args = <<Slice(ArgsCommas, 1, 10), Slice(ArgsCommas, 14, 33)>>)

\* ArgsCommas was split in two, the second argument holding its commas
C5_Witness ==
    /\ Parsed
    /\ pa.args_str = ArgsCommas
    /\ Len(pa.args) = 2
    /\ Contains(pa.args[2], ",")

\* C7: in a quoted region a backslash and the character after it are copied
\* as two characters, the quote state unchanged, so an escaped quote of the
\* delimiter does not close the region; the \n of ArgsMultiLine and the
\* escaped quotes of ArgsEscapedQuote reach the output as written.
C7_EscapesKept ==
    /\ [][(InLoop /\ pa.in_quotes /\ At(pa.args_str, pa.i) = BS
                  /\ pa.i + 1 < Len(pa.args_str)) =>
            /\ pa'.current_arg =
                  pa.current_arg \o <<BS, At(pa.args_str, pa.i + 1)>>
            /\ pa'.in_quotes
            /\ pa'.quote_char = pa.quote_char
            /\ pa'.args = pa.args
            /\ pa'.i = pa.i + 2]_vars
    /\ [](Parsed /\ pa.args_str = ArgsMultiLine =>
            pa.args = <<Slice(ArgsMultiLine, 1, 7),
                        Slice(ArgsMultiLine, 11, Len(ArgsMultiLine) - 1)>>)
    /\ [](Parsed /\ pa.args_str = ArgsEscapedQuote =>
            pa.args = <<Slice(ArgsEscapedQuote, 1, 5),
                        Slice(ArgsEscapedQuote, 9, Len(ArgsEscapedQuote) - 1)>>)

\* the scan is in a quoted region just after copying the escaped quote of
\* its own delimiter
C7_Witness ==
    /\ phase = "parse"
    /\ pa.in_quotes
    /\ Len(pa.current_arg) >= 2
    /\ pa.i >= 2
    /\ At(pa.args_str, pa.i - 2) = BS
    /\ At(pa.args_str, pa.i - 1) = pa.quote_char
    /\ SubSeq(pa.current_arg, Len(pa.current_arg) - 1, Len(pa.current_arg))
          = <<BS, pa.quote_char>>

\* C8: no argument has leading or trailing whitespace; the quote characters
\* that open and close a region at depth zero are not copied, so that a
\* string with one kind of quote and neither parentheses nor backslashes
\* gives arguments free of it; a bare token is returned alone and unchanged;
\* ArgsTwo gives test.txt and Hello world.
C8_StrippedUnquoted ==
    /\ [](\A k \in 1..Len(pa.args) : pa.args[k] = Strip(pa.args[k])
            /\ (pa.args[k] # <<>> =>
                  ~IsSpace(pa.args[k][1]) /\ ~IsSpace(pa.args[k][Len(pa.args[k])])))
    /\ [][(InLoop /\ ~IsEscape(pa) /\ pa.paren_depth = 0
                  /\ At(pa.args_str, pa.i) \in {DQ, SQ}
                  /\ (~pa.in_quotes \/ At(pa.args_str, pa.i) = pa.quote_char)) =>
            /\ pa'.current_arg = pa.current_arg
            /\ pa'.in_quotes = ~pa.in_quotes]_vars
    /\ [](\A q \in {DQ, SQ} :
            (Parsed /\ NoneIn(pa.args_str, 0, Len(pa.args_str),
                              {BS, "(", ")"} \cup ({DQ, SQ} \ {q})))
            => \A k \in 1..Len(pa.args) : ~Contains(pa.args[k], q))
    /\ [](Parsed /\ pa.args_str # <<>>
                 /\ NoneIn(pa.args_str, 0, Len(pa.args_str),
                           {" ", "\n", "\t", "\r", ",", DQ, SQ, "(", ")"})
            => pa.args = <<pa.args_str>>)
    /\ [](Parsed /\ pa.args_str = ArgsTwo =>
            pa.args = <<<<"t", "e", "s", "t", ".", "t", "x", "t">>,
                        <<"H", "e", "l", "l", "o", " ", "w", "o", "r", "l", "d">>>>)

\* a quoted argument written after whitespace was returned without its
\* quotes and without the whitespace
C8_Witness ==
    /\ Parsed
    /\ Len(pa.args) = 2
    /\ \E k \in 1..(Len(pa.args_str) - 1) :
          /\ At(pa.args_str, k - 1) = " "
          /\ At(pa.args_str, k) = DQ
          /\ At(pa.args_str, Len(pa.args_str) - 1) = DQ
          /\ pa.args[2] = Slice(pa.args_str, k + 1, Len(pa.args_str) - 1)
          /\ pa.args[2] # <<>>

\* offset after the last comma of s, 0 when s has none
RECURSIVE AfterLastComma(_)
AfterLastComma(s) ==
    IF s = <<>> THEN 0
    ELSE IF s[Len(s)] = "," THEN Len(s)
    ELSE AfterLastComma(SubSeq(s, 1, Len(s) - 1))

\* number of commas of s
RECURSIVE Commas(_)
Commas(s) ==
    IF s = <<>> THEN 0 ELSE (IF Head(s) = "," THEN 1 ELSE 0) + Commas(Tail(s))

\* C9: on return the buffer left by the scan is added as the last argument
\* exactly when it is not empty once stripped; for a string without quotes,
\* parentheses or backslashes there is one argument per comma, and one more,
\* the stripped text after the last comma, exactly when that text is not all
\* whitespace: an empty or all-whitespace string gives the empty tuple and a
\* trailing comma no final argument.
C9_FinalBuffer ==
    /\ [][(phase = "parse" /\ pa.pc = "while" /\ pa'.pc = "return") =>
            pa'.args = IF Strip(pa.current_arg) # <<>>
                       THEN Append(pa.args, Strip(pa.current_arg))
                       ELSE pa.args]_vars
    /\ [](Parsed /\ NoneIn(pa.args_str, 0, Len(pa.args_str),
                           {DQ, SQ, BS, "(", ")"}) =>
            LET rest == Slice(pa.args_str, AfterLastComma(pa.args_str),
                              Len(pa.args_str))
                n == Commas(pa.args_str)
            IN  IF Strip(rest) = <<>>
                THEN Len(pa.args) = n
                ELSE Len(pa.args) = n + 1 /\ pa.args[n + 1] = Strip(rest))

\* a string that ends in a comma and whitespace gave one argument
C9_Witness ==
    /\ Parsed
    /\ pa.args_str = <<"x", ",", " ">>
    /\ pa.args = <<<<"x">>>>

\* C10: for every string the scan of _parse_args ends, no read of the string
\* raises, and what is returned is a tuple of strings.
C10_Total ==
    /\ <>(phase = "parse" /\ pa.pc = "return")
    /\ [](pa.pc # "raise")
    /\ [](Parsed =>
            /\ DOMAIN pa.args = 1..Len(pa.args)
            /\ \A k \in 1..Len(pa.args) :
                  /\ DOMAIN pa.args[k] = 1..Len(pa.args[k])
                  /\ \A n \in 1..Len(pa.args[k]) :
                        \E m \in 0..(Len(pa.args_str) - 1) :
                            pa.args[k][n] = At(pa.args_str, m))

\* the scan of a string with an open quote, an unclosed parenthesis before
\* it and a backslash at its end has returned
C10_Witness ==
    /\ Parsed
    /\ pa.in_quotes
    /\ Len(pa.args_str) >= 2
    /\ At(pa.args_str, Len(pa.args_str) - 1) = BS
    /\ Contains(pa.args_str, ")")

\* =============================================================== round trip
\* the synthetic invocation was located and its arguments split
RoundTripDone == phase = "split"

\* the characters that delimit arguments
Delimiters == {",", DQ, SQ, "(", ")"}

\* every delimiter of token t follows a backslash
FreeOfUnescaped(t) ==
    \A k \in 1..Len(t) : t[k] \in Delimiters => (k > 1 /\ t[k - 1] = BS)

\* C6 as stated: tokens free of unescaped commas, quotes and parentheses
\* come back as the one argument tuple of the one invocation.
C6_RoundTrip ==
    (RoundTripDone /\ \A k \in 1..Len(tokens) : FreeOfUnescaped(tokens[k])) =>
        out = <<tokens>>

\* token t holds no delimiter, escaped or not, and no whitespace at its ends
CleanToken(t) ==
    /\ \A k \in 1..Len(t) : t[k] \notin Delimiters
    /\ t = Strip(t)

\* C6 amended: tokens that hold no comma, quote or parenthesis at all (an
\* escaped one included) and no leading or trailing whitespace, the last of
\* them not empty, come back as the one argument tuple of the one invocation.
C6_RoundTripClean ==
    (/\ RoundTripDone
     /\ \A k \in 1..Len(tokens) : CleanToken(tokens[k])
     /\ tokens # <<>> => tokens[Len(tokens)] # <<>>) =>
        out = <<tokens>>

\* two clean tokens, one with a backslash, made the round trip
C6_Witness ==
    /\ RoundTripDone
    /\ Len(tokens) = 2
    /\ \A k \in 1..Len(tokens) : CleanToken(tokens[k]) /\ tokens[k] # <<>>
    /\ \E k \in 1..Len(tokens) : Contains(tokens[k], BS)
    /\ out = <<tokens>>


\* ================================================================== dispatch
\* execute_tool_calls has located the invocations of the response
Dispatching == turn.pc \in {"for_call", "handler", "returned", "done"}

\* execute_tool_calls has returned
Returned == turn.pc \in {"returned", "done"}

\* the pattern TOOL[name] occurs in the response
HasMarker(response) ==
    \E k \in 0..(Len(response) - 1) : MatchesAt(response, k)

\* the entries of the trace of the turn with one of the events evs
Events(evs) == {n \in 1..Len(turn.log) : turn.log[n].ev \in evs}

\* C13: for a response without a marker the locator returns the empty list,
\* _parse_args is not called, no handler is entered and execute_tool_calls
\* returns the response as it received it.
C13_NoMarkerUnchanged ==
    (Dispatching /\ ~HasMarker(turn.response)) =>
        /\ turn.tool_calls = <<>>
        /\ Events({"split", "start", "end"}) = {}
        /\ Returned
        /\ turn.results = <<>>
        /\ turn.final_response = turn.response

\* a response of parentheses and blanks came back as it was
C13_Witness ==
    /\ turn.pc = "returned"
    /\ ~HasMarker(turn.response)
    /\ Len(turn.response) >= 2
    /\ turn.response[1] = " "
    /\ turn.final_response = turn.response

\* the loop of execute_tool_calls is past invocation k
Processed(k) == k < turn.call

\* invocation k names a tool that is not registered
Unknown(k) == turn.tool_calls[k].tool \notin Tools

\* the entries of the trace that belong to invocation k
EventsOf(k, evs) == {n \in Events(evs) : turn.log[n].call = k}

\* C14: an invocation of an unregistered tool gives one error result that
\* names the tool, in its place among the results; nothing is raised, its
\* arguments are not split and no handler is entered for it, and the loop
\* reaches every later invocation.
C14_UnknownToolResult ==
    /\ turn.pc # "raised"
    /\ \A k \in 1..Len(turn.tool_calls) :
          (Processed(k) /\ Unknown(k)) =>
              /\ Len(turn.results) >= k
              /\ turn.results[k] = <<"Error: Unknown tool '">>
                                      \o turn.tool_calls[k].tool \o <<"'">>
              /\ EventsOf(k, {"split", "start", "end"}) = {}
    /\ (Returned /\ turn.tool_calls # <<>>) =>
          /\ turn.call = Len(turn.tool_calls) + 1
          /\ Len(turn.results) = Len(turn.tool_calls)

\* a handler ran for an invocation that follows one of an unknown tool
C14_Witness ==
    /\ Returned
    /\ \E k \in 1..Len(turn.tool_calls) :
          /\ Unknown(k)
          /\ \E j \in (k + 1)..Len(turn.tool_calls) :
                EventsOf(j, {"end"}) # {}

\* the arguments _parse_args gives for invocation k
ArgsOf(k) == ParseArgs(turn.tool_calls[k].args)

\* invocation k names a registered tool and gives it a number of arguments
\* its handler does not take, so that the call raises TypeError
Raises(k) ==
    /\ ~Unknown(k)
    /\ turn.tool_calls[k].tool \notin Variadic
    /\ Len(ArgsOf(k)) # Params(turn.tool_calls[k].tool)

\* C15: a call that raises is caught by execute_tool_calls: no exception
\* leaves it, one error result holding the tool name and the message of the
\* exception stands in the place of the invocation, and the loop reaches
\* every later invocation.
C15_FailureCaught ==
    /\ turn.pc # "raised"
    /\ \A k \in 1..Len(turn.tool_calls) :
          (Processed(k) /\ Raises(k)) =>
              /\ Len(turn.results) >= k
              /\ turn.results[k] =
                    <<"Error executing ">> \o turn.tool_calls[k].tool
                        \o <<": ">>
                        \o TypeErrorMessage(turn.tool_calls[k].tool, ArgsOf(k))
              /\ EventsOf(k, {"split"}) # {}
              /\ EventsOf(k, {"start", "end"}) = {}
    /\ \A k \in 1..Len(turn.tool_calls) :
          (Returned /\ Raises(k)) =>
              /\ turn.call = Len(turn.tool_calls) + 1
              /\ Len(turn.results) = Len(turn.tool_calls)

\* read_file was called without an argument, and a handler ran for a later
\* invocation
C15_Witness ==
    /\ Returned
    /\ \E k \in 1..Len(turn.tool_calls) :
          /\ Raises(k)
          /\ turn.tool_calls[k].tool = read_file
          /\ \E j \in (k + 1)..Len(turn.tool_calls) :
                EventsOf(j, {"end"}) # {}

\* C16: handlers run one at a time and in the order of their invocations:
\* a handler is entered only after the one entered before it has returned,
\* at most one is running, and once the loop is over every invocation of a
\* registered tool has had its arguments split and its call made exactly
\* once, whatever the earlier handlers returned.
C16_OneAtATimeInOrder ==
    /\ \A n, m \in Events({"start"}) :
          n < m =>
              /\ turn.log[n].call < turn.log[m].call
              /\ \E e \in EventsOf(turn.log[n].call, {"end"}) : n < e /\ e < m
    /\ \A e \in Events({"end"}) :
          \E n \in EventsOf(turn.log[e].call, {"start"}) : n < e
    /\ Cardinality(Events({"start"})) =
          Cardinality(Events({"end"})) + (IF turn.pc = "handler" THEN 1 ELSE 0)
    /\ \A k \in 1..Len(turn.tool_calls) :
          (Returned /\ ~Unknown(k)) =>
              /\ Cardinality(EventsOf(k, {"split"})) = 1
              /\ Cardinality(EventsOf(k, {"start"})) =
                    (IF Raises(k) THEN 0 ELSE 1)
              /\ Cardinality(EventsOf(k, {"end"})) =
                    (IF Raises(k) THEN 0 ELSE 1)

\* two handlers ran to their end, the first of them to an error result, and
\* a call between them raised
C16_Witness ==
    /\ Returned
    /\ \E k, j \in 1..Len(turn.tool_calls) :
          /\ k + 1 < j
          /\ EventsOf(k, {"end"}) # {}
          /\ EventsOf(j, {"end"}) # {}
          /\ turn.results[k] \in {TimedOut, ErrorExecutingCommand}
          /\ Raises(k + 1)

\* the strings the handler of invocation k may return
HandlerResults(k) ==
    {Result(turn.tool_calls[k].tool, ArgsOf(k), outcome, command) :
        outcome \in Outcomes(turn.tool_calls[k].tool), command \in Commands}

\* C17: after a dispatch there is one result for each located invocation,
\* in the order of the invocations: the unknown-tool error, the error of a
\* caught failure or what the handler returned; execute_tool_calls returns
\* the cleaned response, an empty line, and the results joined by newlines.
C17_OneResultEach ==
    (Returned /\ turn.tool_calls # <<>>) =>
        /\ Len(turn.results) = Len(turn.tool_calls)
        /\ \A k \in 1..Len(turn.tool_calls) :
              IF Unknown(k)
              THEN turn.results[k][1] = "Error: Unknown tool '"
              ELSE IF Raises(k)
              THEN turn.results[k][1] = "Error executing "
              ELSE /\ turn.results[k] \in HandlerResults(k)
                   /\ \E e \in EventsOf(k, {"end"}) :
                         turn.log[e].data = turn.results[k]
        /\ turn.final_response =
              CleanedResponse(turn.response) \o <<"\n", "\n">>
                  \o Join(turn.results, <<"\n">>)

\* three invocations gave a handler result, an unknown-tool error and the
\* error of a caught failure
C17_Witness ==
    /\ Returned
    /\ Len(turn.tool_calls) = 3
    /\ \E k, j, l \in 1..3 :
          /\ Unknown(k)
          /\ Raises(j)
          /\ ~Unknown(l) /\ ~Raises(l)
    /\ CleanedResponse(turn.response) = <<>>

\* offset k of the response lies in the source text of a located invocation,
\* from its marker through its closing parenthesis
InInvocation(k) ==
    \E c \in 1..Len(turn.tool_calls) :
        turn.tool_calls[c].start <= k /\ k <= turn.tool_calls[c].close

\* the response from offset k on without the source text of the located
\* invocations
RECURSIVE WithoutInvocations(_)
WithoutInvocations(k) ==
    IF k >= Len(turn.response) THEN <<>>
    ELSE (IF InInvocation(k) THEN <<>> ELSE <<At(turn.response, k)>>)
         \o WithoutInvocations(k + 1)

\* C18: when an invocation is located, what execute_tool_calls returns
\* above the results is the response without the source text of the located
\* invocations and with nothing else taken from it, up to the whitespace
\* that strip() takes from its two ends.
C18_CleanedIsRemoval ==
    (Returned /\ turn.tool_calls # <<>>) =>
        turn.final_response =
            Strip(WithoutInvocations(0)) \o <<"\n", "\n">>
                \o Join(turn.results, <<"\n">>)

\* the tokens of the first n entries of the trace, one after the other
RECURSIVE Received(_)
Received(n) ==
    IF n = 0 THEN <<>>
    ELSE Received(n - 1)
         \o (IF turn.log[n].ev \in {"token", "done"} THEN turn.log[n].data
             ELSE <<>>)

\* C19: while the request is open nothing is located, split or executed;
\* every chunk comes before the locator is called and before any handler is
\* entered; the string the locator is given is the tokens received, in the
\* order they came, when the stream ended with the done flag or by closing,
\* and the return value of the failed request otherwise, in no case a part
\* of the tokens.
C19_BufferedBeforeLocating ==
    /\ turn.pc \in {"idle", "post", "streaming"} =>
          /\ Events({"locate", "split", "start", "end"}) = {}
          /\ turn.tool_calls = <<>>
          /\ turn.results = <<>>
          /\ agent.todo_list = <<>>
    /\ turn.pc = "streaming" => turn.full_response = Received(Len(turn.log))
    /\ \A n \in Events({"token", "done", "closed", "failed"}) :
          \A m \in Events({"locate", "split", "start", "end"}) : n < m
    /\ Cardinality(Events({"locate"})) <= 1
    /\ \A m \in Events({"locate"}) :
          /\ m >= 2
          /\ turn.log[m - 1].ev \in {"done", "closed", "failed"}
          /\ turn.log[m].data = turn.response
          /\ turn.log[m - 1].ev \in {"done", "closed"} =>
                turn.response = Received(m)
          /\ turn.log[m - 1].ev = "failed" =>
                turn.response \in {RequestTimedOut, <<>>}
    /\ \A m \in Events({"split", "start", "end"}) : Events({"locate"}) # {}

\* an invocation that came in three chunks, the last with the done flag,
\* was located and its handler entered
C19_Witness ==
    /\ turn.pc = "handler"
    /\ Cardinality(Events({"token"})) = 2
    /\ Cardinality(Events({"done"})) = 1
    /\ turn.log[1].data = Marker(show_todos)
    /\ turn.log[3].data = <<")">>
    /\ turn.tool_calls[1].tool = show_todos

\* the handler that is running is _run_command and its command is still
\* running when the wait of subprocess.run is over
Exceeds ==
    /\ turn.pc = "handler"
    /\ ToolName = run_command
    /\ turn.outcome = "ok"
    /\ ~turn.command.exits \/ turn.command.after > WaitSeconds

\* what _run_command returns when the wait was not exceeded
OtherCommandResults ==
    {<<"Command executed. Exit code: ", "{returncode}", "\n", "{output}">>,
     <<"Error executing command: ", "{e}">>}

\* C20: a command that outlasts the wait of _run_command does not hang the
\* handler and raises nothing: the handler returns the timeout result,
\* which is neither the result of a command that exited nor the result of
\* another failure, the result is appended and the loop goes on to the next
\* invocation.
C20_TimeoutResult ==
    /\ [](Exceeds => ENABLED HandlerReturns)
    /\ [](turn.pc # "raised")
    /\ [][Exceeds =>
            /\ turn'.results =
                  Append(turn.results,
                         <<"Error: Command timed out after 30 seconds">>)
            /\ turn'.results[turn.call] \notin OtherCommandResults
            /\ turn'.pc = "for_call"
            /\ turn'.call = turn.call + 1]_vars
    /\ [](\A k \in 1..Len(turn.tool_calls) :
            (Returned /\ turn.tool_calls[k].tool = run_command) =>
                Len(turn.results) = Len(turn.tool_calls))

\* a command timed out and the handler of a later invocation ran
C20_Witness ==
    /\ Returned
    /\ \E k \in 1..Len(turn.tool_calls) :
          /\ turn.tool_calls[k].tool = run_command
          /\ turn.results[k] = <<"Error: Command timed out after 30 seconds">>
          /\ \E j \in (k + 1)..Len(turn.tool_calls) :
                EventsOf(j, {"end"}) # {}

\* ============================================== Argument Splitter, continued
\* the character the loop of _parse_args is at is a quote character
AtQuote == InLoop /\ At(pa.args_str, pa.i) \in {DQ, SQ}

\* C23: the quote state of _parse_args changes only on a quote character
\* met at depth zero; a quote character met at another depth is added to
\* the current argument like any character, and the quote state, the depth
\* and the arguments stay as they were.
C23_QuoteOnlyAtDepthZero ==
    /\ [][(phase = "parse" /\ pa.pc = "while"
           /\ (pa'.in_quotes # pa.in_quotes \/ pa'.quote_char # pa.quote_char))
          => AtQuote /\ pa.paren_depth = 0]_vars
    /\ [][(AtQuote /\ pa.paren_depth # 0) =>
            /\ pa'.in_quotes = pa.in_quotes
            /\ pa'.quote_char = pa.quote_char
            /\ pa'.current_arg =
                  Append(pa.current_arg, At(pa.args_str, pa.i))
            /\ pa'.paren_depth = pa.paren_depth
            /\ pa'.args = pa.args
            /\ pa'.i = pa.i + 1]_vars

\* a quote character after an opening parenthesis was copied and opened no
\* quoted region
C23_Witness ==
    /\ phase = "parse"
    /\ pa.pc = "while"
    /\ pa.i >= 2
    /\ At(pa.args_str, pa.i - 1) \in {DQ, SQ}
    /\ At(pa.args_str, pa.i - 2) = "("
    /\ pa.paren_depth = 1
    /\ ~pa.in_quotes
    /\ pa.current_arg[Len(pa.current_arg)] = At(pa.args_str, pa.i - 1)

\* C27 as claimed: the last element of the tuple _parse_args returns is
\* never the empty string.
C27_LastNeverEmpty ==
    (Parsed /\ pa.args # <<>>) => pa.args[Len(pa.args)] # <<>>

\* C27: the argument added after the scan, for the text after the last
\* top-level comma, is never empty: a buffer that is empty once stripped,
\* like the empty quoted string that ends "a","", adds nothing and the tuple
\* has one element fewer than the written list. The arguments added at a
\* comma may be empty, in the middle of the tuple (x,,x) and at its end: the
\* last element is empty only when it was added at a comma and the buffer
\* after that comma stripped to nothing.
C27_FinalNeverEmpty ==
    Parsed =>
        /\ Strip(pa.current_arg) # <<>> =>
              /\ pa.args # <<>>
              /\ pa.args[Len(pa.args)] = Strip(pa.current_arg)
        /\ (pa.args # <<>> /\ pa.args[Len(pa.args)] = <<>>) =>
              /\ Strip(pa.current_arg) = <<>>
              /\ Contains(pa.args_str, ",")
        /\ pa.args_str = <<DQ, "a", DQ, ",", DQ, DQ>> =>
              pa.args = <<<<"a">>>>
        /\ pa.args_str = <<"x", ",", ",", "x">> =>
              pa.args = <<<<"x">>, <<>>, <<"x">>>>
        /\ pa.args_str = <<"x", ",", ",">> => pa.args = <<<<"x">>, <<>>>>

\* two commas at the end of the string left an empty last element
C27_Witness ==
    /\ Parsed
    /\ pa.args_str = <<"x", ",", ",">>
    /\ Len(pa.args) = 2
    /\ pa.args[2] = <<>>

\* C28: in _parse_args a quoted region is open only at depth zero: the
\* quote state changes only at depth zero and the depth changes only
\* outside quoted regions.
C28_QuotedImpliesDepthZero ==
    /\ [](pa.in_quotes => pa.paren_depth = 0)
    /\ [][pa'.in_quotes # pa.in_quotes => pa.paren_depth = 0]_vars
    /\ [][pa'.paren_depth # pa.paren_depth =>
            ~pa.in_quotes /\ ~pa'.in_quotes]_vars

\* parentheses were read inside a quoted region and the depth stayed zero
C28_Witness ==
    /\ phase = "parse"
    /\ pa.pc = "while"
    /\ pa.in_quotes
    /\ pa.i >= 2
    /\ At(pa.args_str, pa.i - 1) = ")"
    /\ At(pa.args_str, pa.i - 2) = "("
    /\ pa.paren_depth = 0

\* =================================================== Call Locator, continued
\* the scan of the locator is at a character of the text
Scanning == phase = "extract" /\ ex.pc = "for_i" /\ ex.i < Len(ex.text)

\* the character the scan is at
ScanChr == At(ex.text, ex.i)

\* the character before it is a backslash
AfterBackslash == ex.i > 0 /\ At(ex.text, ex.i - 1) = BS

\* C24: in the locator a quote character that follows a backslash leaves
\* the quote state as it is, inside and outside quoted regions and also
\* when the backslash follows a backslash; any other quote character opens
\* a region when none is open, closes the open region when it is the
\* character that opened it, and changes nothing otherwise; no other
\* character changes the quote state.
C24_BackslashBlocksQuote ==
    /\ [][(Scanning /\ ScanChr \in {DQ, SQ} /\ AfterBackslash) =>
            /\ ex'.in_quotes = ex.in_quotes
            /\ ex'.quote_char = ex.quote_char]_vars
    /\ [][(Scanning /\ ScanChr \in {DQ, SQ} /\ ~AfterBackslash) =>
            IF ~ex.in_quotes
            THEN ex'.in_quotes /\ ex'.quote_char = ScanChr
            ELSE IF ScanChr = ex.quote_char
                 THEN ~ex'.in_quotes /\ ex'.quote_char = None
                 ELSE ex'.in_quotes /\ ex'.quote_char = ex.quote_char]_vars
    /\ [][(Scanning /\ ScanChr \notin {DQ, SQ}) =>
            /\ ex'.in_quotes = ex.in_quotes
            /\ ex'.quote_char = ex.quote_char]_vars

\* a quote character after two backslashes was passed outside quotes, and no
\* region opened
C24_Witness ==
    /\ phase = "extract"
    /\ ex.pc = "for_i"
    /\ ex.i >= ex.start_pos + 4
    /\ At(ex.text, ex.i - 1) \in {DQ, SQ}
    /\ At(ex.text, ex.i - 2) = BS
    /\ At(ex.text, ex.i - 3) = BS
    /\ NoneIn(ex.text, ex.start_pos, ex.i - 3, {DQ, SQ})
    /\ ~ex.in_quotes

\* an unescaped quote character c at or after offset k of t
LaterQuote(t, k, c) ==
    \E j \in k..(Len(t) - 1) : At(t, j) = c /\ (j = 0 \/ At(t, j - 1) # BS)

\* offset q holds the first quote character of the arguments opened at
\* offset o: it is unescaped, it follows bare text that leaves the call open,
\* and no unescaped quote character equal to it follows
OpensForGood(t, o, q) ==
    /\ o + 1 < q /\ q < Len(t)
    /\ At(t, q) \in {DQ, SQ}
    /\ At(t, q - 1) # BS
    /\ NoneIn(t, o, q, {DQ, SQ})
    /\ \A k \in o..(q - 1) : RefDepth(t, o, k) > 0
    /\ ~LaterQuote(t, q + 1, At(t, q))

\* C26: in the locator an unescaped quote character inside a bare argument
\* opens a quoted region; when no later unescaped quote character equal to it
\* follows in the text, the region stays open to the end of the text, no
\* closing parenthesis counts, and the invocation is discarded although its
\* parentheses are balanced: TOOL[add_todo](Don't stop) yields no invocation.
C26_ApostropheDiscardsCall ==
    /\ [](Located =>
            \A n \in 1..Len(ex.matches) :
                (/\ HasOpenParen(ex.text, ex.matches[n].end)
                 /\ \E q \in 0..(Len(ex.text) - 1) :
                       OpensForGood(ex.text, ex.matches[n].end, q))
                => \A j \in 1..Len(Calls) :
                      Calls[j].open # ex.matches[n].end)
    /\ []((Located /\ ex.text = TextApostrophe) => Calls = <<>>)
    /\ [][(/\ Scanning
           /\ \E q \in 0..ex.i : OpensForGood(ex.text, ex.start_pos, q))
          => /\ ex'.pc = "for_i"
             /\ ex'.in_quotes
             /\ ex'.paren_count = ex.paren_count
             /\ ex'.end_pos = ex.start_pos]_vars

\* the text TOOL[add_todo](Don't stop) has been scanned to its end
C26_Witness ==
    /\ Located
    /\ ex.text = TextApostrophe
    /\ OpensForGood(ex.text, 14, 18)
    /\ RefDepth(ex.text, 14, Len(ex.text) - 1) = 1
    /\ Calls = <<>>

\* ======================================================= nested invocations
\* the quote state after the characters of t from offset k through offset
\* stop, q being the state before offset k
RECURSIVE QuoteScan(_, _, _, _)
QuoteScan(t, k, stop, q) ==
    IF k > stop THEN q
    ELSE QuoteScan(t, k + 1, stop,
            IF At(t, k) \in {DQ, SQ} /\ (k = 0 \/ At(t, k - 1) # BS)
            THEN IF q = None THEN At(t, k)
                 ELSE IF q = At(t, k) THEN None ELSE q
            ELSE q)

\* the first offset from k on at which a closing parenthesis outside quotes
\* returns the depth d to zero, or the length of t
RECURSIVE CloseScan(_, _, _, _)
CloseScan(t, k, q, d) ==
    IF k >= Len(t) THEN Len(t)
    ELSE LET q2 == QuoteScan(t, k, k, q)
             d2 == IF q2 # None THEN d
                   ELSE IF At(t, k) = "(" THEN d + 1
                   ELSE IF At(t, k) = ")" THEN d - 1
                   ELSE d
         IN  IF q2 = None /\ At(t, k) = ")" /\ d2 = 0 THEN k
             ELSE CloseScan(t, k + 1, q2, d2)

\* a marker starts at offset k of the response, inside a quoted region of
\* the arguments of invocation c; two matches of the pattern never overlap,
\* so that the marker is one of the matches of finditer
NestedIn(k, c) ==
    /\ MatchesAt(turn.response, k)
    /\ QuoteScan(turn.response, turn.tool_calls[c].open, k, None) # None

\* the marker at offset k is followed by an argument list that closes
WellFormed(k) ==
    /\ HasOpenParen(turn.response, MatchEnd(turn.response, k))
    /\ CloseScan(turn.response, MatchEnd(turn.response, k), None, 0)
          < Len(turn.response)

\* invocation k was reached by the loop of execute_tool_calls: an unknown
\* tool has its error result, a registered one had its arguments split and
\* its handler called
WasDispatched(k) ==
    /\ Len(turn.results) >= k
    /\ IF Unknown(k)
       THEN turn.results[k] = UnknownTool(turn.tool_calls[k].tool)
       ELSE /\ EventsOf(k, {"split"}) # {}
            /\ Raises(k) \/ EventsOf(k, {"end"}) # {}

\* C22: a well-formed marker inside a quoted argument of an invocation is
\* located as an invocation of its own, later in the list than the enclosing
\* one, and once execute_tool_calls has returned both have been dispatched.
C22_NestedMarkerDispatched ==
    Dispatching =>
        \A c \in 1..Len(turn.tool_calls) :
        \A k \in (turn.tool_calls[c].open + 1)..(turn.tool_calls[c].close - 1) :
            (NestedIn(k, c) /\ WellFormed(k)) =>
                \E d \in (c + 1)..Len(turn.tool_calls) :
                    /\ turn.tool_calls[d].start = k
                    /\ turn.tool_calls[d].open = MatchEnd(turn.response, k)
                    /\ Returned => WasDispatched(c) /\ WasDispatched(d)

\* TOOL[show_todos]("TOOL[show_todos]()") gave two invocations and the
\* handler ran for both
C22_Witness ==
    /\ Returned
    /\ turn.response = Call(show_todos, <<DQ>> \o Call(show_todos, <<>>) \o <<DQ>>)
    /\ Len(turn.tool_calls) = 2
    /\ NestedIn(18, 1) /\ WellFormed(18)
    /\ turn.tool_calls[1].args = <<DQ>> \o Call(show_todos, <<>>) \o <<DQ>>
    /\ turn.tool_calls[2].args = <<>>
    /\ EventsOf(1, {"end"}) # {}
    /\ EventsOf(2, {"end"}) # {}

\* ================================================================== session
\* the loop of main waits for a line
Prompting == phase = "session" /\ turn.pc = "idle"

\* C21: after construction the tool registry, its names and the handler
\* bound to each name, is never changed: chat turns, the dispatch of tools
\* and the commands /clear, /cd, /model, /init, /todo and /plan leave it as
\* _register_tools returned it.
C21_RegistryNeverChanges ==
    /\ [](agent.tools = RegisterTools)
    /\ [](DOMAIN agent.tools = Tools)
    /\ [][agent'.tools = agent.tools]_vars

\* a turn has dispatched a tool, the history was cleared and the model
\* switched
C21_Witness ==
    /\ Prompting
    /\ agent.todo_list # <<>>
    /\ agent.conversation_history = <<>>
    /\ agent.model = "other"
    /\ agent.tools = RegisterTools

\* the roles of the conversation history alternate, user first
Alternates(history) ==
    \A n \in 1..Len(history) :
        history[n].role = (IF n % 2 = 1 THEN "user" ELSE "assistant")

\* C29: whenever the loop waits for input, after any chat turns and /clear
\* commands, the conversation history has even length and its roles
\* alternate user, assistant, starting with user.
C29_HistoryAlternates ==
    Prompting =>
        /\ Len(agent.conversation_history) % 2 = 0
        /\ Alternates(agent.conversation_history)

\* =============================================================== _edit_file
\* _edit_file has returned its success result
Edited == phase = "edited" /\ out = <<"Successfully edited ">> \o tokens[1]

\* the occurrences of old in s from offset k on that do not overlap, counted
\* left to right
RECURSIVE Occurrences(_, _, _)
Occurrences(s, k, old) ==
    IF k + Len(old) > Len(s) THEN 0
    ELSE IF Slice(s, k, k + Len(old)) = old
         THEN 1 + Occurrences(s, k + Len(old), old)
         ELSE Occurrences(s, k + 1, old)

\* no character of s is a character of t
NoCommonCharacter(s, t) ==
    \A n \in 1..Len(s) : \A m \in 1..Len(t) : s[n] # t[m]

\* after a successful edit the file contains new_text and does not contain
\* old_text
C25_OldTextGone ==
    Edited => IsIn(tokens[3], text) /\ ~IsIn(tokens[2], text)

\* C25: after a successful edit the file contains new_text, and every
\* occurrence of old_text found left to right without overlap has become
\* new_text; the file then holds no old_text when old_text and new_text are
\* not empty and share no character, while in general old_text can remain:
\* when new_text contains it, when it is empty, or when a replacement joins
\* its neighbours into a new occurrence.
C25_EveryOccurrenceReplaced ==
    Edited =>
        /\ IsIn(tokens[2], args_str)
        /\ IsIn(tokens[3], text)
        /\ tokens[2] # <<>> =>
              /\ Occurrences(args_str, 0, tokens[2]) >= 1
              /\ Len(text) = Len(args_str)
                    + Occurrences(args_str, 0, tokens[2])
                        * (Len(tokens[3]) - Len(tokens[2]))
        /\ tokens[2] = <<>> =>
              Len(text) = Len(args_str) + (Len(args_str) + 1) * Len(tokens[3])
        /\ (/\ tokens[2] # <<>> /\ tokens[3] # <<>>
            /\ NoCommonCharacter(tokens[2], tokens[3]))
           => ~IsIn(tokens[2], text)
        /\ (tokens[2] # <<>> /\ IsIn(tokens[2], tokens[3]))
           => IsIn(tokens[2], text)

\* aab with ab replaced by b is ab: old_text is back though new_text does not
\* contain it
C25_Witness ==
    /\ Edited
    /\ args_str = <<"a", "a", "b">>
    /\ tokens[2] = <<"a", "b">>
    /\ tokens[3] = <<"b">>
    /\ text = <<"a", "b">>

\* ================================================================ todo list
Todos == agent.todo_list

\* the step is a call of update_todo with a status that is not accepted, or
\* with a task number that is no integer of 1..len(todos)
RejectedUpdate ==
    /\ phase = "todo"
    /\ budget' = budget - 1
    /\ args_str' = update_todo
    /\ \/ tokens'[2] \notin Statuses
       \/ ~IsInt(tokens'[1])
       \/ IsInt(tokens'[1]) /\ IntOf(tokens'[1]) \notin 1..Len(Todos)

\* C30: after any add_todo and update_todo calls every todo has one of the
\* statuses pending, in_progress and completed; no call drops or moves a
\* todo; update_todo with another status, or with a task number outside
\* 1..len(todos), zero and negative numbers included, changes no todo.
C30_TodoListGrowsOnly ==
    /\ [](\A n \in 1..Len(Todos) : Todos[n].status \in Statuses)
    /\ [][/\ Len(agent'.todo_list) >= Len(Todos)
          /\ \A n \in 1..Len(Todos) :
                /\ agent'.todo_list[n].content = Todos[n].content
                /\ agent'.todo_list[n].active_form = Todos[n].active_form]_vars
    /\ [][RejectedUpdate => agent'.todo_list = Todos]_vars

\* update_todo("0", "completed") and update_todo("-1", "completed") on a list
\* of two pending todos have changed nothing
C30_Witness ==
    /\ phase = "todo"
    /\ Len(Todos) = 2
    /\ \A n \in 1..2 : Todos[n].status = <<"p", "e", "n", "d", "i", "n", "g">>
    /\ Todos[1].content # Todos[2].content
    /\ budget = 0
    /\ args_str = update_todo
    /\ tokens[1] \in {<<"0">>, <<"-", "1">>}
    /\ tokens[2] = <<"c", "o", "m", "p", "l", "e", "t", "e", "d">>
    /\ out[1] = "Updated task "

====
